---- MODULE Spec2Model ----
(***************************************************************************)
(* State-machine model of the WhatsApp conversation flow engine of         *)
(* transfi-whatsapp: the key-value store, the flow engines (individual and *)
(* business registration, collect-money, fiat-to-crypto), the intent       *)
(* router processMessage and the remote collaborators, which are modelled  *)
(* as nondeterministic outcomes.                                           *)
(*                                                                         *)
(* Texts are TLA+ strings; the JavaScript string functions the code uses   *)
(* (toLowerCase, trim, split, includes, the regular expressions) are       *)
(* operators that compute on the characters of the string.                 *)
(***************************************************************************)
EXTENDS Integers, Sequences, FiniteSets, TLC

VARIABLES
  redis,     \* the key-value store: full key string -> [val, ex (seconds)]
  last,      \* what the handling of the last inbound request did
  env,       \* the environment of the run (a name in Envs): who writes what,
             \* and what the opaque collaborators may answer
  memory     \* the storage the process keeps in memory for when the store
             \* fails: useFallbackStorage and fallbackStorage

vars == <<redis, last, env, memory>>

----------------------------------------------------------------------------
(* JavaScript string functions *)

UpperChars == "ABCDEFGHIJKLMNOPQRSTUVWXYZ"
LowerChars == "abcdefghijklmnopqrstuvwxyz"
DigitChars == "0123456789"

CharAt(s, i) == SubSeq(s, i, i)

\* the characters of a string, as a set
CharsOf(chars) == {CharAt(chars, i) : i \in 1..Len(chars)}

IndexIn(c, chars) == CHOOSE i \in 1..Len(chars) : CharAt(chars, i) = c

Uppers == CharsOf(UpperChars)

Lowers == CharsOf(LowerChars)

Digits == CharsOf(DigitChars)

\* the case mappings, character by character
LowerOf == [c \in Uppers |-> CharAt(LowerChars, IndexIn(c, UpperChars))]

UpperOf == [c \in Lowers |-> CharAt(UpperChars, IndexIn(c, LowerChars))]

\* the string with each of its characters mapped, one half after the other
RECURSIVE MapChars(_, _)
MapChars(s, map) ==
  IF Len(s) = 0 THEN ""
  ELSE IF Len(s) = 1 THEN (IF s \in DOMAIN map THEN map[s] ELSE s)
  ELSE MapChars(SubSeq(s, 1, Len(s) \div 2), map)
         \o MapChars(SubSeq(s, Len(s) \div 2 + 1, Len(s)), map)

EvalToLowerCase(s) == MapChars(s, LowerOf)

toUpperCase(s) == MapChars(s, UpperOf)

\* String.prototype.includes for a non-empty needle
EvalIncludes(s, k) ==
  \E i \in 1..(Len(s) - Len(k) + 1) : SubSeq(s, i, i + Len(k) - 1) = k

IsSpace(c) == c \in {" ", "\n", "\t"}

RECURSIVE trimStart(_)
trimStart(s) ==
  IF s # "" /\ IsSpace(CharAt(s, 1)) THEN trimStart(SubSeq(s, 2, Len(s))) ELSE s

RECURSIVE trimEnd(_)
trimEnd(s) ==
  IF s # "" /\ IsSpace(CharAt(s, Len(s)))
  THEN trimEnd(SubSeq(s, 1, Len(s) - 1)) ELSE s

EvalTrim(s) == trimEnd(trimStart(s))

\* String.prototype.split on a one-character separator
RECURSIVE split(_, _)
split(s, sep) ==
  IF \E i \in 1..Len(s) : CharAt(s, i) = sep
  THEN LET i == CHOOSE j \in 1..Len(s) :
                  /\ CharAt(s, j) = sep
                  /\ \A k \in 1..(j - 1) : CharAt(s, k) # sep
       IN <<SubSeq(s, 1, i - 1)>> \o split(SubSeq(s, i + 1, Len(s)), sep)
  ELSE <<s>>

AllChars(s, P(_)) == \A i \in 1..Len(s) : P(CharAt(s, i))

IsDigit(c) == c \in Digits

IsUpper(c) == c \in Uppers

CountDigits(s) == Cardinality({i \in 1..Len(s) : IsDigit(CharAt(s, i))})

\* userInput.split('\n').map(line => line.trim()).filter(line => line.length > 0)
EvalTrimmedLines(userInput) ==
  LET raw == split(userInput, "\n")
      trimmed == [i \in 1..Len(raw) |-> EvalTrim(raw[i])]
  IN SelectSeq(trimmed, LAMBDA line : line # "")

\* a get that finds nothing, a match that matches nothing
Nil == "(nil)"

Letters == Uppers \cup Lowers

\* [A-Za-z0-9._%+-] and [A-Za-z0-9.-]
EmailLocalChars == Letters \cup Digits \cup CharsOf("._%+-")

EmailDomainChars == Letters \cup Digits \cup CharsOf(".-")

\* [A-Z|a-z]
TopLevelChars == Letters \cup {"|"}

\* \w, the word characters of \b
WordChars == Letters \cup Digits \cup {"_"}

\* messageText.match(/\b[A-Za-z0-9._%+-]+@[A-Za-z0-9.-]+\.[A-Z|a-z]{2,}\b/):
\* the leftmost match, each part as long as it can be, or Nil
EvalExtractEmail(s) ==
  LET ats == {i \in 1..Len(s) : CharAt(s, i) = "@"}
      Run(from, to, chars) == \A k \in from..to : CharAt(s, k) \in chars
      WordAt(i) == i >= 1 /\ i <= Len(s) /\ CharAt(s, i) \in WordChars
      \* \b between the positions i and i + 1
      Boundary(i) == WordAt(i) # WordAt(i + 1)
      Begins(at) ==
        {b \in 1..(at - 1) : Boundary(b - 1) /\ Run(b, at - 1, EmailLocalChars)}
      Ends(at) ==
        {e \in (at + 4)..Len(s) :
           /\ Boundary(e)
           /\ \E d \in (at + 2)..(e - 2) :
                /\ CharAt(s, d) = "."
                /\ Run(at + 1, d - 1, EmailDomainChars)
                /\ Run(d + 1, e, TopLevelChars)}
      Candidates ==
        UNION {Begins(at) \X Ends(at) : at \in ats}
  IN IF Candidates = {} THEN Nil
     ELSE LET m == CHOOSE c \in Candidates :
                     \A c2 \in Candidates :
                        c[1] < c2[1] \/ (c[1] = c2[1] /\ c[2] >= c2[2])
          IN SubSeq(s, m[1], m[2])

----------------------------------------------------------------------------
(* The texts users send *)

IndividualBulk ==
  "Al\nRoe\nal@x.io\n15-03-1990\nIN\nmale\n9876543210\n1 Elm St\nPune\n400001\nMH"

IndividualBulkBadEmail ==
  "Al\nRoe\nal.x.io\n15-03-1990\nIN\nmale\n9876543210\n1 Elm St\nPune\n400001\nMH"

IndividualBulkShort == "Al\n\nRoe\n  \nal@x.io"

BusinessBulk ==
  "ops@acme.io\nAcme Ltd\nIndia\nREG123\n15-03-2020\n9876543210\n2 Oak Rd\nPune\n400001\nMH"

BusinessBulkBadDate ==
  "ops@acme.io\nAcme Ltd\nIndia\nREG123\n2020-03-15\n9876543210\n2 Oak Rd\nPune\n400001\nMH"

BusinessBulkShort == "ops@acme.io\nAcme Ltd\nIndia"

FiatBulk == "EUR\n100\nUSDC\nsepa_pull"

FiatBulkBad == "EUR\n0\nUSDC\ncash"

FiatBulkShort == "EUR\n100"

OrderBulk == "10000\nPHP\nexpense\nbank_transfer"

OrderBulkBad == "0\nPHP\nexpense\nbank_transfer"

OrderBulkPartner == "250\nphp\nexpense\nbank_transfer\norder-1234"

OrderBulkFull == "250\nPHP\nexpense\nbank_transfer\norder-1234\nbpi"

OrderBulkShort == "250\nPHP\nexpense"

TextMessages ==
  { IndividualBulk, IndividualBulkBadEmail, IndividualBulkShort,
    BusinessBulk, BusinessBulkBadDate, BusinessBulkShort,
    FiatBulk, FiatBulkBad, FiatBulkShort, OrderBulk, OrderBulkBad,
    OrderBulkPartner, OrderBulkFull, OrderBulkShort,
    "confirm", "YES", " y ", "Edit", "maybe", "exit", "register", "status",
    "reset", "help", "Individual", "business", "cancel, send money",
    "I want to collect money",
    "send money", "al@x.io", "fiat to crypto", "live rates", "PHP",
    "XYZQ123" }

DocumentNames == {"invoice.pdf"}

----------------------------------------------------------------------------
(* The string functions as the handlers call them.  Their values on the    *)
(* texts above and on the lower-cased texts are computed once and looked   *)
(* up; any other argument is computed on the spot.                         *)

SentTexts == TextMessages \cup DocumentNames

LowerTexts == {EvalToLowerCase(t) : t \in SentTexts}

\* the literals the handlers look for with includes
Needles ==
  {"exit", "cancel", "stop", "quit", "back", "menu", "main menu", "help", "no",
   "nevermind", "never mind", "end", "finish", "done", "successfully",
   "register", "signup", "create account", "individual", "personal", "person",
   "business", "company", "corporate", "send money", "want to send",
   "need to send", "transfer money", "send cash", "collect money",
   "want to collect", "need to collect", "receive money", "get money",
   "collect cash", "rate", "exchange", "currency", "live", "fiat", "crypto",
   "fiat to crypto", "convert to crypto", "fiat to cryptocurrency",
   "crypto quote", "cryptocurrency quote", "fiat crypto",
   "exchange from fiat to crypto", "exchange fiat to crypto",
   "fiat to crypto exchange", "crypto exchange rate", "fiat crypto exchange",
   "convert fiat to crypto"}

LowerCaseTable == [t \in SentTexts |-> EvalToLowerCase(t)]

TrimTable == [t \in SentTexts \cup LowerTexts |-> EvalTrim(t)]

IncludesTable == [t \in LowerTexts |-> {k \in Needles : EvalIncludes(t, k)}]

TrimmedLinesTable == [t \in SentTexts |-> EvalTrimmedLines(t)]

ExtractEmailTable == [t \in SentTexts |-> EvalExtractEmail(t)]

toLowerCase(s) ==
  IF s \in SentTexts THEN LowerCaseTable[s] ELSE EvalToLowerCase(s)

trim(s) ==
  IF s \in SentTexts \cup LowerTexts THEN TrimTable[s] ELSE EvalTrim(s)

includes(s, k) ==
  IF s \in LowerTexts /\ k \in Needles THEN k \in IncludesTable[s]
  ELSE EvalIncludes(s, k)

TrimmedLines(userInput) ==
  IF userInput \in SentTexts THEN TrimmedLinesTable[userInput]
  ELSE EvalTrimmedLines(userInput)

ExtractEmail(s) ==
  IF s \in SentTexts THEN ExtractEmailTable[s] ELSE EvalExtractEmail(s)

----------------------------------------------------------------------------
(* The key-value store.  A key that is not in DOMAIN r is absent; a value   *)
(* is the parsed JSON (a record) or the stored string, with its expiry.    *)

NullState == [type |-> "null"]

EmptyData == [f \in {} |-> ""]

\* { ...target, ...source } and Object.assign(target, source)
Assign(target, source) ==
  [f \in DOMAIN target \cup DOMAIN source |->
     IF f \in DOMAIN source THEN source[f] ELSE target[f]]

setEx(r, key, seconds, value) ==
  [k \in DOMAIN r \cup {key} |->
     IF k = key THEN [val |-> value, ex |-> seconds] ELSE r[k]]

del(r, key) == [k \in DOMAIN r \ {key} |-> r[k]]

\* redisClient.get of a key that holds JSON, parsed; null when absent
getJSON(r, key) == IF key \in DOMAIN r THEN r[key].val ELSE NullState

\* redisClient.get of a key that holds a plain string; null when absent
getString(r, key) == IF key \in DOMAIN r THEN r[key].val ELSE Nil

REDIS_KEY_PREFIX == "user_creation"

BUSINESS_REDIS_KEY_PREFIX == "business_user_creation"

USER_DATA_PREFIX == "user_data"

getUserCreationKey(whatsappNumber) == REDIS_KEY_PREFIX \o ":" \o whatsappNumber

getBusinessUserCreationKey(whatsappNumber) ==
  BUSINESS_REDIS_KEY_PREFIX \o ":" \o whatsappNumber

getUserDataKey(email) == USER_DATA_PREFIX \o ":" \o toLowerCase(email)

\* setCreationState: null deletes the key, anything else is written with a
\* one hour expiry
setCreationState(r, key, state) ==
  IF state = NullState THEN del(r, key) ELSE setEx(r, key, 3600, state)

getUserCreationState(r, whatsappNumber) ==
  getJSON(r, getUserCreationKey(whatsappNumber))

setUserCreationState(r, whatsappNumber, state) ==
  setCreationState(r, getUserCreationKey(whatsappNumber), state)

getBusinessUserCreationState(r, whatsappNumber) ==
  getJSON(r, getBusinessUserCreationKey(whatsappNumber))

setBusinessUserCreationState(r, whatsappNumber, state) ==
  setCreationState(r, getBusinessUserCreationKey(whatsappNumber), state)

\* storeUserData: the record is stored under the lower-cased email for a year
storeUserData(r, email, userDataToStore) ==
  setEx(r, getUserDataKey(email), 31536000,
        Assign(userDataToStore, [email |-> toLowerCase(email)]))

\* getUserData: the record, or null; a hit rewrites the record with the same
\* expiry, which leaves the store as it was
getUserData(r, email) == getJSON(r, getUserDataKey(email))

userExists(r, email) == getUserData(r, email) # NullState

----------------------------------------------------------------------------
(* Validators (common/validation.js).  The external classifier answers     *)
(* "valid" or "invalid", or the call fails or its answer is malformed      *)
(* ("down"), and then the deterministic fallback decides.                  *)

ClassifierVerdicts == {"valid", "invalid", "down"}

\* /^[^\s@]+@[^\s@]+\.[^\s@]+$/
EmailRegexTest(s) ==
  /\ \A i \in 1..Len(s) : ~IsSpace(CharAt(s, i))
  /\ Cardinality({i \in 1..Len(s) : CharAt(s, i) = "@"}) = 1
  /\ LET at == CHOOSE i \in 1..Len(s) : CharAt(s, i) = "@"
     IN /\ at >= 2
        /\ \E d \in (at + 2)..(Len(s) - 1) : CharAt(s, d) = "."

\* /^\d{2}-\d{2}-\d{4}$/
DateRegexTest(s) ==
  /\ Len(s) = 10
  /\ \A i \in {1, 2, 4, 5, 7, 8, 9, 10} : IsDigit(CharAt(s, i))
  /\ CharAt(s, 3) = "-"
  /\ CharAt(s, 6) = "-"

fallbackValidation(input, validationType) ==
  CASE validationType = "email" -> EmailRegexTest(trim(input))
    [] validationType \in {"date", "business_date"} -> DateRegexTest(input)
    [] validationType = "gender" ->
         toLowerCase(trim(input)) \in {"male", "female", "other"}
    [] validationType = "phone" ->
         CountDigits(input) >= 10 /\ CountDigits(input) <= 15
    [] OTHER -> Len(trim(input)) > 0

validateUserInput(input, validationType, verdict) ==
  CASE verdict = "valid" -> TRUE
    [] verdict = "invalid" -> FALSE
    [] OTHER -> fallbackValidation(input, validationType)

----------------------------------------------------------------------------
(* Flow definitions *)

USER_REGISTRATION_FLOW ==
  << [field |-> "firstName",  validation |-> "name"],
     [field |-> "lastName",   validation |-> "name"],
     [field |-> "email",      validation |-> "email"],
     [field |-> "date",       validation |-> "date"],
     [field |-> "country",    validation |-> "countryCode"],
     [field |-> "gender",     validation |-> "gender"],
     [field |-> "phone",      validation |-> "phone"],
     [field |-> "street",     validation |-> "text"],
     [field |-> "city",       validation |-> "text"],
     [field |-> "postalCode", validation |-> "postalCode"],
     [field |-> "state",      validation |-> "text"] >>

BUSINESS_USER_REGISTRATION_FLOW ==
  << [field |-> "em",           validation |-> "email"],
     [field |-> "businessName", validation |-> "text"],
     [field |-> "country",      validation |-> "text"],
     [field |-> "regNo",        validation |-> "text"],
     [field |-> "date",         validation |-> "business_date"],
     [field |-> "phone",        validation |-> "phone"],
     [field |-> "address",      validation |-> "text"],
     [field |-> "city",         validation |-> "text"],
     [field |-> "postalCode",   validation |-> "text"],
     [field |-> "state",        validation |-> "text"] >>

FIAT_TO_CRYPTO_FLOW ==
  << [field |-> "fiatTicker",   validation |-> "currency"],
     [field |-> "amount",       validation |-> "amount"],
     [field |-> "cryptoTicker", validation |-> "crypto"],
     [field |-> "paymentCode",  validation |-> "payment"] >>

UserAddressFields == {"street", "city", "postalCode", "state"}

BusinessAddressFields == {"address", "city", "postalCode", "state"}

FieldsOf(steps) == {steps[i].field : i \in 1..Len(steps)}

\* the position of a field in a flow definition
StepIndex(steps, field) == CHOOSE i \in 1..Len(steps) : steps[i].field = field

\* The validation loop of the bulk handlers: the positions whose line passed
ValidPositions(steps, lines, verdicts) ==
  {i \in 1..Len(steps) :
     validateUserInput(lines[i], steps[i].validation, verdicts[i])}

\* collectedData as the loop leaves it: the plain fields that passed, and the
\* address fields that passed nested under address when there is any
CollectFields(steps, lines, valid, addressFields) ==
  LET plain == {steps[i].field : i \in valid} \ addressFields
      addr  == {steps[i].field : i \in valid} \cap addressFields
      collectedData == [f \in plain |-> lines[StepIndex(steps, f)]]
      addressData == [f \in addr |-> lines[StepIndex(steps, f)]]
  IN IF addr # {}
     THEN [f \in plain \cup {"address"} |->
             IF f = "address" THEN addressData ELSE collectedData[f]]
     ELSE collectedData

----------------------------------------------------------------------------
(* Replies.  A reply is the text the user gets, abridged to the words that *)
(* tell one reply of the code from another; NoReply is a handler's null.   *)

NoReply == "(null)"

IncompleteInformation == "Incomplete Information"

ValidationErrorsFound == "Validation Errors Found"

ConfirmYourDetails == "Please confirm your details:"

ConfirmYourBusinessDetails == "Please confirm your business details:"

ConfirmOrEditPrompt == "Please type 'confirm', 'yes', or 'y' to proceed"

AlreadyExists == "An account with this email already exists."

BusinessAlreadyExists == "A business account with this email already exists."

IndividualSuccess ==
  "Creating your account now... Your individual account has been created successfully!"

IndividualError == "There was an error creating your account."

BusinessSuccess ==
  "Creating your business account now... Your business account has been created successfully!"

BusinessError == "There was an error creating your business account."

TryAgainLater == " Please try again later or contact support if the problem persists."

RemoteErrorDetail == " Error: Internal Server Error"

UserWelcome == "Welcome! I'll help you create your individual account."

BusinessWelcome == "Welcome to Business Registration!"

----------------------------------------------------------------------------
(* The remote account-creation call (common/api_client.js).  The remote    *)
(* collaborator is opaque: what it answers is chosen nondeterministically. *)

RemoteOutcomes ==
  { "created",        \* 2xx, the body carries a userId
    "created_no_id",  \* 2xx, the body carries no userId
    "http_409",       \* conflict: the account exists
    "http_400",       \* another non-2xx answer of the client class
    "http_500",       \* a non-2xx answer of the server class
    "network_error" } \* fetch or response.json() throws (timeout, no route)

RemoteOk(outcome) == outcome \in {"created", "created_no_id"}

RemoteHasUserId(outcome) == outcome = "created"

\* makeApiCall(endpoint, data, successMessage, errorMessage, redisClient)
makeApiCall(r, data, successMessage, errorMessage, outcome) ==
  CASE outcome = "network_error" ->
         [redis |-> r, result |-> errorMessage \o TryAgainLater]
    [] outcome = "http_409" -> [redis |-> r, result |-> AlreadyExists]
    [] ~RemoteOk(outcome) ->
         [redis |-> r, result |-> errorMessage \o RemoteErrorDetail]
    [] OTHER ->
         [redis |-> IF RemoteHasUserId(outcome)
                    THEN storeUserData(r, data.email,
                           Assign(data, [userId |-> "remote-id",
                                         userType |-> "individual"]))
                    ELSE r,
          result |-> successMessage]

\* a business call that stores the record whatever the remote answered
makeBusinessApiCallStoring(r, data, successMessage, errorMessage, outcome) ==
  [redis |-> storeUserData(r, data.em,
               Assign(data, [userId |-> "remote-id", userType |-> "business"])),
   result |-> CASE outcome = "network_error" -> errorMessage \o TryAgainLater
                [] outcome = "http_409" -> BusinessAlreadyExists
                [] ~RemoteOk(outcome) -> errorMessage \o RemoteErrorDetail
                [] OTHER -> successMessage]

\* makeBusinessApiCall(endpoint, data, successMessage, errorMessage, redisClient)
makeBusinessApiCall(r, data, successMessage, errorMessage, outcome) ==
  CASE outcome = "network_error" ->
         [redis |-> r, result |-> errorMessage \o TryAgainLater]
    [] outcome = "http_409" -> [redis |-> r, result |-> BusinessAlreadyExists]
    [] ~RemoteOk(outcome) ->
         [redis |-> r, result |-> errorMessage \o RemoteErrorDetail]
    [] OTHER ->
         [redis |-> IF RemoteHasUserId(outcome)
                    THEN storeUserData(r, data.em,
                           Assign(data, [userId |-> "remote-id",
                                         userType |-> "business"]))
                    ELSE r,
          result |-> successMessage]

UserContextKey(whatsappNumber) == "user_context:" \o whatsappNumber

\* { ...state.collectedData, whatsappNumber }
WithWhatsApp(collectedData, whatsappNumber) ==
  Assign(collectedData, [whatsappNumber |-> whatsappNumber])

\* createUserAccount(userData, redisClient)
createUserAccount(r, userData, outcome) ==
  LET call == makeApiCall(r, userData, IndividualSuccess, IndividualError, outcome)
  IN IF includes(call.result, "successfully")
     THEN [redis |-> setEx(call.redis, UserContextKey(userData.whatsappNumber),
                           3600, [email |-> userData.email, userId |-> "pending",
                                  userType |-> "individual"]),
           result |-> call.result]
     ELSE call

\* createBusinessUserAccount(userData, redisClient)
createBusinessUserAccount(r, userData, outcome) ==
  LET call == makeBusinessApiCall(r, userData, BusinessSuccess, BusinessError,
                                  outcome)
  IN IF includes(call.result, "successfully")
     THEN [redis |-> setEx(call.redis, UserContextKey(userData.whatsappNumber),
                           3600, [email |-> userData.em, userId |-> "pending",
                                  userType |-> "business"]),
           result |-> call.result]
     ELSE call

----------------------------------------------------------------------------
(* Individual registration (users/individual_user.js).  A handler returns  *)
(* the store it leaves, its reply and the remote call it made, if any.     *)

Handled(r, reply) == [redis |-> r, reply |-> reply, remote |-> "none"]

startUserRegistration(r, whatsappNumber) ==
  Handled(setUserCreationState(r, whatsappNumber,
            [type |-> "user_registration", currentStep |-> "0",
             collectedData |-> EmptyData, whatsappNumber |-> whatsappNumber]),
          UserWelcome)

isUserInRegistration(r, whatsappNumber) ==
  LET state == getUserCreationState(r, whatsappNumber)
  IN state # NullState /\ state.type = "user_registration"

\* a reset that goes back to step 0 with the data collected so far
resetUserRegistrationKeeping(r, whatsappNumber) ==
  LET state == getUserCreationState(r, whatsappNumber)
  IN IF state = NullState
     THEN startUserRegistration(r, whatsappNumber)
     ELSE Handled(setUserCreationState(r, whatsappNumber,
                    [state EXCEPT !.currentStep = "0"]),
                  UserWelcome)

resetUserRegistration(r, whatsappNumber) ==
  startUserRegistration(setUserCreationState(r, whatsappNumber, NullState),
                        whatsappNumber)

\* a bulk handler that skips the check of the validation results: it commits
\* the fields that passed and moves to confirmation whatever failed
processBulkUserInputUnchecked(r, whatsappNumber, userInput, state, verdicts) ==
  LET steps == USER_REGISTRATION_FLOW
      lines == TrimmedLines(userInput)
  IN IF Len(lines) < Len(steps)
     THEN Handled(r, IncompleteInformation)
     ELSE Handled(
            setUserCreationState(r, whatsappNumber,
              [state EXCEPT
                 !.collectedData =
                    CollectFields(steps, lines,
                                  ValidPositions(steps, lines, verdicts),
                                  UserAddressFields),
                 !.currentStep = "confirmation"]),
            ConfirmYourDetails)

processBulkUserInput(r, whatsappNumber, userInput, state, verdicts) ==
  LET steps == USER_REGISTRATION_FLOW
      lines == TrimmedLines(userInput)
  IN IF Len(lines) < Len(steps)
     THEN Handled(r, IncompleteInformation)
     ELSE LET valid == ValidPositions(steps, lines, verdicts)
          IN IF valid # 1..Len(steps)
             THEN Handled(r, ValidationErrorsFound)
             ELSE Handled(
                    setUserCreationState(r, whatsappNumber,
                      [state EXCEPT
                         !.collectedData =
                            CollectFields(steps, lines, valid, UserAddressFields),
                         !.currentStep = "confirmation"]),
                    ConfirmYourDetails)

\* a confirmation step that drops the FlowState on an input it does not know
handleConfirmationStepDropping(r, whatsappNumber, userInput, outcome) ==
  LET state == getUserCreationState(r, whatsappNumber)
      lowerInput == trim(toLowerCase(userInput))
  IN IF state = NullState \/ state.type # "user_registration"
        \/ state.currentStep # "confirmation"
     THEN Handled(r, NoReply)
     ELSE IF lowerInput \in {"confirm", "yes", "y"}
     THEN LET created == createUserAccount(r,
                           WithWhatsApp(state.collectedData, whatsappNumber),
                           outcome)
          IN [redis |-> setUserCreationState(created.redis, whatsappNumber,
                                             NullState),
              reply |-> created.result, remote |-> outcome]
     ELSE IF lowerInput = "edit"
     THEN resetUserRegistration(r, whatsappNumber)
     ELSE Handled(setUserCreationState(r, whatsappNumber, NullState),
                  ConfirmOrEditPrompt)

handleConfirmationStep(r, whatsappNumber, userInput, outcome) ==
  LET state == getUserCreationState(r, whatsappNumber)
      lowerInput == trim(toLowerCase(userInput))
  IN IF state = NullState \/ state.type # "user_registration"
        \/ state.currentStep # "confirmation"
     THEN Handled(r, NoReply)
     ELSE IF lowerInput \in {"confirm", "yes", "y"}
     THEN LET created == createUserAccount(r,
                           WithWhatsApp(state.collectedData, whatsappNumber),
                           outcome)
          IN [redis |-> setUserCreationState(created.redis, whatsappNumber,
                                             NullState),
              reply |-> created.result, remote |-> outcome]
     ELSE IF lowerInput = "edit"
     THEN resetUserRegistration(r, whatsappNumber)
     ELSE Handled(r, ConfirmOrEditPrompt)

processUserRegistrationStep(r, whatsappNumber, userInput, verdicts, outcome) ==
  LET state == getUserCreationState(r, whatsappNumber)
  IN IF state = NullState \/ state.type # "user_registration"
     THEN Handled(r, NoReply)
     ELSE IF state.currentStep = "0"
     THEN processBulkUserInput(r, whatsappNumber, userInput, state, verdicts)
     ELSE IF state.currentStep = "confirmation"
     THEN handleConfirmationStep(r, whatsappNumber, userInput, outcome)
     ELSE Handled(r, NoReply)

----------------------------------------------------------------------------
(* Business registration (users/business_user.js) *)

startBusinessUserRegistration(r, whatsappNumber) ==
  Handled(setBusinessUserCreationState(r, whatsappNumber,
            [type |-> "business_user_registration", currentStep |-> "0",
             collectedData |-> EmptyData, whatsappNumber |-> whatsappNumber]),
          BusinessWelcome)

isUserInBusinessRegistration(r, whatsappNumber) ==
  LET state == getBusinessUserCreationState(r, whatsappNumber)
  IN state # NullState /\ state.type = "business_user_registration"

resetBusinessUserRegistration(r, whatsappNumber) ==
  startBusinessUserRegistration(
    setBusinessUserCreationState(r, whatsappNumber, NullState), whatsappNumber)

\* a bulk handler that commits the lines of a short submission before it
\* rejects it
processBulkBusinessInputPartial(r, whatsappNumber, userInput, state, verdicts) ==
  LET steps == BUSINESS_USER_REGISTRATION_FLOW
      lines == TrimmedLines(userInput)
  IN IF Len(lines) < Len(steps)
     THEN Handled(
            setBusinessUserCreationState(r, whatsappNumber,
              [state EXCEPT
                 !.collectedData =
                    [f \in {steps[i].field : i \in 1..Len(lines)} |->
                       lines[StepIndex(steps, f)]]]),
            IncompleteInformation)
     ELSE LET valid == ValidPositions(steps, lines, verdicts)
          IN IF valid # 1..Len(steps)
             THEN Handled(r, ValidationErrorsFound)
             ELSE Handled(
                    setBusinessUserCreationState(r, whatsappNumber,
                      [state EXCEPT
                         !.collectedData =
                            CollectFields(steps, lines, valid,
                                          BusinessAddressFields),
                         !.currentStep = "confirmation"]),
                    ConfirmYourBusinessDetails)

processBulkBusinessInput(r, whatsappNumber, userInput, state, verdicts) ==
  LET steps == BUSINESS_USER_REGISTRATION_FLOW
      lines == TrimmedLines(userInput)
  IN IF Len(lines) < Len(steps)
     THEN Handled(r, IncompleteInformation)
     ELSE LET valid == ValidPositions(steps, lines, verdicts)
          IN IF valid # 1..Len(steps)
             THEN Handled(r, ValidationErrorsFound)
             ELSE Handled(
                    setBusinessUserCreationState(r, whatsappNumber,
                      [state EXCEPT
                         !.collectedData =
                            CollectFields(steps, lines, valid,
                                          BusinessAddressFields),
                         !.currentStep = "confirmation"]),
                    ConfirmYourBusinessDetails)

\* a confirmation handler that clears the FlowState only when the account
\* was created
handleBusinessConfirmationStepKeeping(r, whatsappNumber, userInput, outcome) ==
  LET state == getBusinessUserCreationState(r, whatsappNumber)
      lowerInput == trim(toLowerCase(userInput))
  IN IF state = NullState \/ state.type # "business_user_registration"
        \/ state.currentStep # "confirmation"
     THEN Handled(r, NoReply)
     ELSE IF lowerInput \in {"confirm", "yes", "y"}
     THEN LET created == createBusinessUserAccount(r,
                           WithWhatsApp(state.collectedData, whatsappNumber),
                           outcome)
          IN [redis |-> IF RemoteOk(outcome)
                        THEN setBusinessUserCreationState(created.redis,
                               whatsappNumber, NullState)
                        ELSE created.redis,
              reply |-> created.result, remote |-> outcome]
     ELSE IF lowerInput = "edit"
     THEN resetBusinessUserRegistration(r, whatsappNumber)
     ELSE Handled(r, ConfirmOrEditPrompt)

handleBusinessConfirmationStep(r, whatsappNumber, userInput, outcome) ==
  LET state == getBusinessUserCreationState(r, whatsappNumber)
      lowerInput == trim(toLowerCase(userInput))
  IN IF state = NullState \/ state.type # "business_user_registration"
        \/ state.currentStep # "confirmation"
     THEN Handled(r, NoReply)
     ELSE IF lowerInput \in {"confirm", "yes", "y"}
     THEN LET created == createBusinessUserAccount(r,
                           WithWhatsApp(state.collectedData, whatsappNumber),
                           outcome)
          IN [redis |-> setBusinessUserCreationState(created.redis,
                                                     whatsappNumber, NullState),
              reply |-> created.result, remote |-> outcome]
     ELSE IF lowerInput = "edit"
     THEN resetBusinessUserRegistration(r, whatsappNumber)
     ELSE Handled(r, ConfirmOrEditPrompt)

processBusinessUserRegistrationStep(r, whatsappNumber, userInput, verdicts, outcome) ==
  LET state == getBusinessUserCreationState(r, whatsappNumber)
  IN IF state = NullState \/ state.type # "business_user_registration"
     THEN Handled(r, NoReply)
     ELSE IF state.currentStep = "0"
     THEN processBulkBusinessInput(r, whatsappNumber, userInput, state, verdicts)
     ELSE IF state.currentStep = "confirmation"
     THEN handleBusinessConfirmationStep(r, whatsappNumber, userInput, outcome)
     ELSE Handled(r, NoReply)

----------------------------------------------------------------------------
(* Fiat-to-crypto quote flow (services/template_service.js) *)

FlowCancelled == "Fiat-to-Crypto Flow Cancelled"

ConfirmYourConversion == "Please confirm your conversion details:"

ConfirmQuotePrompt == "Please type 'confirm', 'yes', or 'y' to get your quote"

QuoteReply == "Fiat-to-Crypto Quote"

QuoteError == "Error getting quote"

FiatToCryptoWelcome == "Fiat to Crypto Exchange Rate"

FIAT_TO_CRYPTO_KEY_PREFIX == "fiat_to_crypto_flow"

getFiatToCryptoKey(whatsappNumber) ==
  FIAT_TO_CRYPTO_KEY_PREFIX \o ":" \o whatsappNumber

getFiatToCryptoState(r, whatsappNumber) ==
  getJSON(r, getFiatToCryptoKey(whatsappNumber))

setFiatToCryptoState(r, whatsappNumber, state) ==
  IF state = NullState THEN del(r, getFiatToCryptoKey(whatsappNumber))
  ELSE setEx(r, getFiatToCryptoKey(whatsappNumber), 1800, state)

isUserInFiatToCryptoFlow(r, whatsappNumber) ==
  LET state == getFiatToCryptoState(r, whatsappNumber)
  IN state # NullState /\ state.type = "fiat_to_crypto"

startFiatToCryptoFlow(r, whatsappNumber) ==
  Handled(setFiatToCryptoState(r, whatsappNumber,
            [type |-> "fiat_to_crypto", currentStep |-> "0",
             collectedData |-> EmptyData, whatsappNumber |-> whatsappNumber]),
          FiatToCryptoWelcome)

resetFiatToCryptoFlow(r, whatsappNumber) ==
  startFiatToCryptoFlow(setFiatToCryptoState(r, whatsappNumber, NullState),
                        whatsappNumber)

\* the numeric prefix parseFloat reads: digits with at most one point
RECURSIVE NumericPrefixLen(_, _, _)
NumericPrefixLen(s, i, seenPoint) ==
  IF i > Len(s) THEN i - 1
  ELSE IF IsDigit(CharAt(s, i)) THEN NumericPrefixLen(s, i + 1, seenPoint)
  ELSE IF CharAt(s, i) = "." /\ ~seenPoint THEN NumericPrefixLen(s, i + 1, TRUE)
  ELSE i - 1

\* !isNaN(parseFloat(t)) && parseFloat(t) > 0
ParseFloatPositive(t) ==
  LET signed == Len(t) > 0 /\ CharAt(t, 1) \in {"+", "-"}
      body == IF signed THEN SubSeq(t, 2, Len(t)) ELSE t
      n == NumericPrefixLen(body, 1, FALSE)
  IN /\ ~(signed /\ CharAt(t, 1) = "-")
     /\ \E i \in 1..n : IsDigit(CharAt(body, i)) /\ CharAt(body, i) # "0"

validateFiatToCryptoInput(input, validationType) ==
  LET trimmedInput == trim(input)
  IN CASE validationType = "currency" ->
            Len(trimmedInput) = 3 /\ AllChars(toUpperCase(trimmedInput), IsUpper)
       [] validationType = "amount" -> ParseFloatPositive(trimmedInput)
       [] validationType = "crypto" ->
            /\ Len(trimmedInput) >= 2 /\ Len(trimmedInput) <= 10
            /\ AllChars(toUpperCase(trimmedInput), IsUpper)
       [] validationType = "payment" ->
            toLowerCase(trimmedInput) \in
              {"sepa_pull", "bank_transfer", "card", "wallet"}
       [] OTHER -> Len(trimmedInput) > 0

\* a bulk handler that keeps the fields that passed when another field failed
processBulkFiatToCryptoInputKeeping(r, whatsappNumber, userInput, state) ==
  LET steps == FIAT_TO_CRYPTO_FLOW
      lowerInput == toLowerCase(userInput)
      lines == TrimmedLines(userInput)
  IN IF includes(lowerInput, "exit") \/ includes(lowerInput, "cancel")
        \/ includes(lowerInput, "stop")
     THEN Handled(setFiatToCryptoState(r, whatsappNumber, NullState),
                  FlowCancelled)
     ELSE IF Len(lines) < Len(steps)
     THEN Handled(r, IncompleteInformation)
     ELSE LET valid == {i \in 1..Len(steps) :
                          validateFiatToCryptoInput(lines[i], steps[i].validation)}
              collected == CollectFields(steps, lines, valid, {})
          IN Handled(
               setFiatToCryptoState(r, whatsappNumber,
                 [state EXCEPT
                    !.collectedData = collected,
                    !.currentStep = IF valid = 1..Len(steps)
                                    THEN "confirmation" ELSE "0"]),
               IF valid = 1..Len(steps)
               THEN ConfirmYourConversion ELSE ValidationErrorsFound)

processBulkFiatToCryptoInput(r, whatsappNumber, userInput, state) ==
  LET steps == FIAT_TO_CRYPTO_FLOW
      lowerInput == toLowerCase(userInput)
      lines == TrimmedLines(userInput)
  IN IF includes(lowerInput, "exit") \/ includes(lowerInput, "cancel")
        \/ includes(lowerInput, "stop")
     THEN Handled(setFiatToCryptoState(r, whatsappNumber, NullState),
                  FlowCancelled)
     ELSE IF Len(lines) < Len(steps)
     THEN Handled(r, IncompleteInformation)
     ELSE LET valid == {i \in 1..Len(steps) :
                          validateFiatToCryptoInput(lines[i], steps[i].validation)}
          IN IF valid # 1..Len(steps)
             THEN Handled(r, ValidationErrorsFound)
             ELSE Handled(
                    setFiatToCryptoState(r, whatsappNumber,
                      [state EXCEPT
                         !.collectedData = CollectFields(steps, lines, valid, {}),
                         !.currentStep = "confirmation"]),
                    ConfirmYourConversion)

\* getFiatToCryptoQuote: the reply of the remote quote call
getFiatToCryptoQuote(outcome) == IF RemoteOk(outcome) THEN QuoteReply ELSE QuoteError

handleFiatToCryptoConfirmationStep(r, whatsappNumber, userInput, outcome) ==
  LET state == getFiatToCryptoState(r, whatsappNumber)
      lowerInput == trim(toLowerCase(userInput))
  IN IF state = NullState \/ state.type # "fiat_to_crypto"
        \/ state.currentStep # "confirmation"
     THEN Handled(r, NoReply)
     ELSE IF lowerInput \in {"confirm", "yes", "y"}
     THEN [redis |-> setFiatToCryptoState(r, whatsappNumber, NullState),
           reply |-> getFiatToCryptoQuote(outcome), remote |-> outcome]
     ELSE IF lowerInput = "edit"
     THEN resetFiatToCryptoFlow(r, whatsappNumber)
     ELSE Handled(r, ConfirmQuotePrompt)

processFiatToCryptoStep(r, whatsappNumber, userInput, outcome) ==
  LET state == getFiatToCryptoState(r, whatsappNumber)
  IN IF state = NullState \/ state.type # "fiat_to_crypto"
     THEN Handled(r, NoReply)
     ELSE IF state.currentStep = "0"
     THEN processBulkFiatToCryptoInput(r, whatsappNumber, userInput, state)
     ELSE IF state.currentStep = "confirmation"
     THEN handleFiatToCryptoConfirmationStep(r, whatsappNumber, userInput, outcome)
     ELSE Handled(r, NoReply)

----------------------------------------------------------------------------
(* Collect-money flow (services/collect_money_service.js) *)

CollectMoneyWelcome == "Collect Money Flow"

UserNotVerified == "User Not Verified"

PdfUploaded == "PDF Uploaded Successfully!"

PdfUploadFailed == "PDF Upload Failed"

OrderValidationError == "Validation Error"

MissingInvoiceId == "Missing Invoice ID"

OrderCreated == "Deposit Order Created Successfully!"

OrderCreationFailed == "Order Creation Failed"

CollectMoneyKey(whatsappNumber) == "collect_money:" \o whatsappNumber

getCollectMoneyState(r, whatsappNumber) ==
  getJSON(r, CollectMoneyKey(whatsappNumber))

\* a write of the collect-money FlowState with the expiry of a registration
setCollectMoneyStateForAnHour(r, whatsappNumber, state) ==
  IF state = NullState THEN del(r, CollectMoneyKey(whatsappNumber))
  ELSE setEx(r, CollectMoneyKey(whatsappNumber), 3600, state)

setCollectMoneyState(r, whatsappNumber, state) ==
  IF state = NullState THEN del(r, CollectMoneyKey(whatsappNumber))
  ELSE setEx(r, CollectMoneyKey(whatsappNumber), 1800, state)

isUserInCollectMoneyFlow(r, whatsappNumber) ==
  LET state == getCollectMoneyState(r, whatsappNumber)
  IN state # NullState /\ state.type = "collect_money"

startCollectMoneyFlow(r, whatsappNumber) ==
  Handled(setCollectMoneyState(r, whatsappNumber,
            [type |-> "collect_money", currentStep |-> "0",
             collectedData |-> EmptyData, whatsappNumber |-> whatsappNumber]),
          CollectMoneyWelcome)

\* parseInt: the leading digits of the value, NaN when there are none
RECURSIVE DigitsValue(_, _, _)
DigitsValue(s, i, acc) ==
  IF i > Len(s) \/ ~IsDigit(CharAt(s, i)) THEN acc
  ELSE DigitsValue(s, i + 1, acc * 10 + (IndexIn(CharAt(s, i), DigitChars) - 1))

parseInt(value) ==
  LET t == trimStart(value)
      negative == Len(t) > 0 /\ CharAt(t, 1) = "-"
      body == IF Len(t) > 0 /\ CharAt(t, 1) \in {"+", "-"}
              THEN SubSeq(t, 2, Len(t)) ELSE t
  IN IF Len(body) = 0 \/ ~IsDigit(CharAt(body, 1))
     THEN [isNaN |-> TRUE, n |-> 0]
     ELSE [isNaN |-> FALSE,
           n |-> IF negative THEN 0 - DigitsValue(body, 1, 0)
                 ELSE DigitsValue(body, 1, 0)]

OrderFields ==
  <<"amount", "currency", "purposeCode", "paymentType", "partnerId", "paymentCode">>

parseBulkOrderInput(input) ==
  LET lines == TrimmedLines(input)
      n == IF Len(lines) < Len(OrderFields) THEN Len(lines) ELSE Len(OrderFields)
  IN [f \in {OrderFields[i] : i \in 1..n} |->
        LET i == CHOOSE j \in 1..n : OrderFields[j] = f
        IN IF f = "amount" THEN parseInt(lines[i])
           ELSE IF f = "currency" THEN toUpperCase(lines[i])
           ELSE lines[i]]

\* a validation that does not look at the amount
validateOrderDataAnyAmount(orderData) ==
  /\ "currency" \in DOMAIN orderData
  /\ Len(orderData.currency) = 3
  /\ AllChars(orderData.currency, IsUpper)
  /\ "purposeCode" \in DOMAIN orderData
  /\ "paymentType" \in DOMAIN orderData

validateOrderData(orderData) ==
  /\ "amount" \in DOMAIN orderData
  /\ ~orderData.amount.isNaN
  /\ orderData.amount.n >= 1
  /\ "currency" \in DOMAIN orderData
  /\ Len(orderData.currency) = 3
  /\ AllChars(orderData.currency, IsUpper)
  /\ "purposeCode" \in DOMAIN orderData
  /\ "paymentType" \in DOMAIN orderData

handlePdfUpload(r, whatsappNumber, state, outcome) ==
  IF getJSON(r, UserContextKey(whatsappNumber)) = NullState
  THEN Handled(r, UserNotVerified)
  ELSE IF ~RemoteOk(outcome)
  THEN [redis |-> r, reply |-> PdfUploadFailed, remote |-> outcome]
  ELSE [redis |-> setCollectMoneyState(r, whatsappNumber,
                    [state EXCEPT
                       !.collectedData =
                          Assign(state.collectedData,
                                 [invoiceId |-> "inv-1", pdfUrl |-> "url-1"]),
                       !.currentStep = "1"]),
        reply |-> PdfUploaded, remote |-> outcome]

createDepositOrderFromData(r, whatsappNumber, state, outcome) ==
  IF getJSON(r, UserContextKey(whatsappNumber)) = NullState
  THEN Handled(r, OrderCreationFailed)
  ELSE IF ~RemoteOk(outcome)
  THEN [redis |-> r, reply |-> OrderCreationFailed, remote |-> outcome]
  ELSE [redis |-> setCollectMoneyState(r, whatsappNumber, NullState),
        reply |-> OrderCreated, remote |-> outcome]

handleBulkOrderInput(r, whatsappNumber, userInput, state, outcome) ==
  LET orderData == parseBulkOrderInput(userInput)
  IN IF ~validateOrderData(orderData)
     THEN Handled(r, OrderValidationError)
     ELSE IF "invoiceId" \notin DOMAIN state.collectedData
     THEN Handled(r, MissingInvoiceId)
     ELSE LET completed == [state EXCEPT
                              !.collectedData =
                                 Assign(state.collectedData, orderData),
                              !.currentStep = "2"]
          IN createDepositOrderFromData(
               setCollectMoneyState(r, whatsappNumber, completed),
               whatsappNumber, completed, outcome)

processCollectMoneyStep(r, whatsappNumber, userInput, isDocument, outcome) ==
  LET state == getCollectMoneyState(r, whatsappNumber)
  IN IF state = NullState \/ state.type # "collect_money"
     THEN Handled(r, NoReply)
     ELSE IF isDocument /\ state.currentStep = "0"
     THEN handlePdfUpload(r, whatsappNumber, state, outcome)
     ELSE IF ~isDocument /\ state.currentStep = "1"
     THEN handleBulkOrderInput(r, whatsappNumber, userInput, state, outcome)
     ELSE Handled(r, NoReply)

----------------------------------------------------------------------------
(* Exchange-rates flow (services/exchange_rates.js) *)

AskForCurrency == "Which currency would you like rates for?"

InvalidCurrency == "Invalid currency code"

RatesReply == "Live Exchange Rates for\nDeposit Rate:\nWithdraw Rate:"

ErrorGettingRates == "Error getting rates"

EXCHANGE_RATES_KEY_PREFIX == "exchange_rates_flow"

getExchangeRatesKey(whatsappNumber) ==
  EXCHANGE_RATES_KEY_PREFIX \o ":" \o whatsappNumber

\* isUserInExchangeRatesFlow returns the stored state, or null
isUserInExchangeRatesFlow(r, whatsappNumber) ==
  getJSON(r, getExchangeRatesKey(whatsappNumber))

setExchangeRatesState(r, whatsappNumber, state) ==
  IF state = NullState THEN del(r, getExchangeRatesKey(whatsappNumber))
  ELSE setEx(r, getExchangeRatesKey(whatsappNumber), 1800, state)

\* /^[A-Z]{1,10}$/ on the upper-cased, trimmed code
isValidCurrencyCode(currency) ==
  LET currencyCode == trim(toUpperCase(currency))
  IN Len(currencyCode) >= 1 /\ Len(currencyCode) <= 10
     /\ AllChars(currencyCode, IsUpper)

\* extracted is the code the classifier read in the message, or "NONE"
startExchangeRatesFlow(r, whatsappNumber, extracted, outcome) ==
  IF extracted # "NONE" /\ isValidCurrencyCode(extracted)
  THEN IF RemoteOk(outcome)
       THEN [redis |-> setExchangeRatesState(r, whatsappNumber, NullState),
             reply |-> RatesReply, remote |-> outcome]
       ELSE [redis |-> r, reply |-> ErrorGettingRates, remote |-> outcome]
  ELSE Handled(setExchangeRatesState(r, whatsappNumber,
                 [type |-> "exchange_rates",
                  currentStep |-> "waiting_for_currency",
                  whatsappNumber |-> whatsappNumber]),
               AskForCurrency)

\* a step that drops the state when the code is not valid
processExchangeRatesStepClearing(r, whatsappNumber, userInput, outcome) ==
  LET state == isUserInExchangeRatesFlow(r, whatsappNumber)
  IN IF state = NullState \/ state.type # "exchange_rates"
     THEN Handled(r, NoReply)
     ELSE IF ~isValidCurrencyCode(toUpperCase(trim(userInput)))
     THEN Handled(setExchangeRatesState(r, whatsappNumber, NullState),
                  InvalidCurrency)
     ELSE IF RemoteOk(outcome)
     THEN [redis |-> setExchangeRatesState(r, whatsappNumber, NullState),
           reply |-> RatesReply, remote |-> outcome]
     ELSE [redis |-> r, reply |-> ErrorGettingRates, remote |-> outcome]

processExchangeRatesStep(r, whatsappNumber, userInput, outcome) ==
  LET state == isUserInExchangeRatesFlow(r, whatsappNumber)
  IN IF state = NullState \/ state.type # "exchange_rates"
     THEN Handled(r, NoReply)
     ELSE IF state.currentStep = "waiting_for_currency"
     THEN IF ~isValidCurrencyCode(toUpperCase(trim(userInput)))
          THEN Handled(r, InvalidCurrency)
          ELSE IF RemoteOk(outcome)
          THEN [redis |-> setExchangeRatesState(r, whatsappNumber, NullState),
                reply |-> RatesReply, remote |-> outcome]
          ELSE [redis |-> r, reply |-> ErrorGettingRates, remote |-> outcome]
     ELSE Handled(r, NoReply)

----------------------------------------------------------------------------
(* The intent router (main.js).  Each Route operator is one section of     *)
(* processMessage and yields every result the section can have, one for   *)
(* each answer of the opaque collaborators it asks.                        *)

Exited == "Exited Successfully!"

RegisterPrompt == "Are you an individual or a business?"

WelcomeBack == "Welcome back! Your account is verified."

SendMoneyFlow == "Welcome back! Your account is verified. Send Money Flow"

AccountNotFound == "Account Not Found"

InvalidSelection == "Invalid Selection"

InvalidEmailFormat == "Invalid Email Format"

VerificationRequired == "Account Verification Required"

HelpReply == "WhatsApp Bot Commands:"

RegistrationProgress == "Registration Progress:"

BusinessRegistrationProgress == "Business Registration Progress:"

NoRegistration == "You are not currently in any registration process."

NothingToReset == "Nothing to reset."

DefaultReply == "Thank you for your message!"

Routed(section, h) ==
  [redis |-> h.redis, reply |-> h.reply, remote |-> h.remote,
   section |-> section]

ExitKeywords ==
  {"exit", "cancel", "stop", "quit", "back", "menu", "main menu", "help", "no",
   "nevermind", "never mind", "end", "finish", "done"}

handleExitRequest(messageText) ==
  LET lowerMessage == toLowerCase(messageText)
  IN \E keyword \in ExitKeywords : includes(lowerMessage, keyword)

\* the key names exitFromAllFlows deletes, in the order it deletes them
ExitDeletedKeys(from) ==
  << "user_registration:" \o from, "business_user_registration:" \o from,
     "collect_money:" \o from, "exchange_rates:" \o from,
     "fiat_to_crypto_flow:" \o from, "money_intent:" \o from,
     "registration_intent:" \o from, "registration_step:" \o from,
     "user_email:" \o from, "pending_money_intent:" \o from,
     "pdf_" \o from >>

RECURSIVE delAll(_, _)
delAll(r, keys) ==
  IF keys = <<>> THEN r ELSE delAll(del(r, Head(keys)), Tail(keys))

\* an exit that deletes the keys of the namespaces whatever number they name
exitFromAllFlowsOfEveryone(r, from) ==
  Handled([k \in {key \in DOMAIN r :
                    \A i \in DOMAIN ExitDeletedKeys("") :
                      LET prefix == ExitDeletedKeys("")[i]
                      IN ~(Len(key) >= Len(prefix)
                           /\ SubSeq(key, 1, Len(prefix)) = prefix)} |-> r[k]],
          Exited)

exitFromAllFlows(r, from) == Handled(delAll(r, ExitDeletedKeys(from)), Exited)

UserContextOf(email, userData) ==
  [email |-> email, userId |-> userData.userId, userType |-> userData.userType]

\* the account of the address is known: bind the sender to it and resume the
\* stored money intent
ResumeVerified(r, from, email, cleared) ==
  LET bound == setEx(r, UserContextKey(from), 3600,
                     UserContextOf(email, getUserData(r, email)))
      storedIntent == getString(bound, "money_intent:" \o from)
      r1 == delAll(bound, cleared)
  IN IF storedIntent = "COLLECT_MONEY"
     THEN LET started == startCollectMoneyFlow(del(r1, "money_intent:" \o from),
                                               from)
          IN Handled(started.redis, WelcomeBack \o " " \o started.reply)
     ELSE IF storedIntent = "SEND_MONEY"
     THEN Handled(del(r1, "money_intent:" \o from), SendMoneyFlow)
     ELSE Handled(r1, WelcomeBack)

handleUserVerification(r, from, messageText) ==
  LET email == ExtractEmail(messageText)
  IN IF email = Nil THEN Handled(r, VerificationRequired)
     ELSE IF userExists(r, email) THEN ResumeVerified(r, from, email, <<>>)
     ELSE Handled(
            setEx(setEx(setEx(r, "registration_intent:" \o from, 300, "pending"),
                        "user_email:" \o from, 300, email),
                  "pending_money_intent:" \o from, 300,
                  getString(r, "money_intent:" \o from)),
            AccountNotFound)

AllDown == [i \in 1..Len(USER_REGISTRATION_FLOW) |-> "down"]

AllValid == [i \in 1..Len(USER_REGISTRATION_FLOW) |-> "valid"]

InvalidAt(k) ==
  [i \in 1..Len(USER_REGISTRATION_FLOW) |-> IF i = k THEN "invalid" ELSE "down"]

\* what the validation classifier answers for the lines of one message
ClassifierProfiles == {AllDown, AllValid, InvalidAt(8)}

\* What a section of processMessage does with a message: the routed results
\* of the answers it returned (done), and the stores with which the message
\* goes on to the sections after it (pass), where its handler returned null
\* or its condition did not hold
Stop(results) == [done |-> results, pass |-> {}]

Pass(r) == [done |-> {}, pass |-> {r}]

\* one routed result for each answer of the collaborators the section asked
Answer(section, responses, r) ==
  [done |-> {Routed(section, h) : h \in {x \in responses : x.reply # NoReply}},
   pass |-> IF \E x \in responses : x.reply = NoReply THEN {r} ELSE {}]


\* the collaborators a registration step asks: the validation classifier at
\* step 0, the remote account service at confirmation
VerdictsAt(state, e) == IF state.currentStep = "0" THEN e.verdicts ELSE {AllDown}

OutcomesAt(state, e) ==
  IF state.currentStep = "confirmation" THEN e.outcomes ELSE {"none"}

\* the closing section: fiat-to-crypto keywords, then the static reply
FiatCryptoKeywords ==
  {"fiat to crypto", "convert to crypto", "fiat to cryptocurrency",
   "crypto quote", "cryptocurrency quote", "fiat crypto",
   "exchange from fiat to crypto", "exchange fiat to crypto",
   "fiat to crypto exchange", "crypto exchange rate", "fiat crypto exchange",
   "convert fiat to crypto"}

RouteDefault(r, from, messageText, e) ==
  LET fiatCryptoMessage == toLowerCase(messageText)
  IN IF \E k \in FiatCryptoKeywords : includes(fiatCryptoMessage, k)
     THEN {Routed("fiat_crypto_keywords", startFiatToCryptoFlow(r, from))}
     ELSE {Routed("default", Handled(r, DefaultReply))}

\* what the intent classifier may answer; "down" is a failed call
RatesIntentAnswers == {"EXCHANGE_RATES", "OTHER", "down"}

\* what the currency extraction may answer
CurrencyAnswers == {"PHP", "NONE"}

\* detectExchangeRatesIntent: the classifier's answer, or keywords when the
\* classifier call fails
detectExchangeRatesIntent(messageText, answer) ==
  LET lowerMessage == toLowerCase(messageText)
  IN IF answer # "down" THEN answer
     ELSE IF includes(lowerMessage, "rate") \/ includes(lowerMessage, "exchange")
             \/ includes(lowerMessage, "currency")
             \/ includes(lowerMessage, "live")
     THEN "EXCHANGE_RATES"
     ELSE "OTHER"

RouteRatesIntent(r, from, messageText, e) ==
  LET section ==
        LET lowerMessage == toLowerCase(messageText)
            intents == {detectExchangeRatesIntent(messageText, answer) :
                          answer \in e.ratesAnswers}
        IN [done |->
              IF "EXCHANGE_RATES" \notin intents THEN {}
              ELSE IF includes(lowerMessage, "fiat") /\ includes(lowerMessage, "crypto")
              THEN {Routed("rates_intent_fiat_crypto", startFiatToCryptoFlow(r, from))}
              ELSE {Routed("rates_intent",
                           startExchangeRatesFlow(r, from, currency, outcome)) :
                      currency \in e.currencyAnswers, outcome \in e.outcomes},
            pass |-> IF intents = {"EXCHANGE_RATES"} THEN {} ELSE {r}]
  IN section.done
       \cup UNION {RouteDefault(r1, from, messageText, e) : r1 \in section.pass}

RouteExchangeRates(r, from, messageText, e) ==
  LET section ==
        IF isUserInExchangeRatesFlow(r, from) = NullState THEN Pass(r)
        ELSE IF handleExitRequest(messageText)
        THEN Stop({Routed("rates_exit", exitFromAllFlows(r, from))})
        ELSE Answer("rates_flow",
                    {processExchangeRatesStep(r, from, messageText, outcome) :
                       outcome \in e.outcomes},
                    r)
  IN section.done
       \cup UNION {RouteRatesIntent(r1, from, messageText, e) : r1 \in section.pass}

RouteCommands(r, from, messageText, e) ==
  LET section ==
        LET lowerMessage == toLowerCase(messageText)
        IN IF lowerMessage \in {"help", "commands"}
           THEN Stop({Routed("help", Handled(r, HelpReply))})
           ELSE IF lowerMessage = "status"
           THEN Stop({Routed("status",
                   Handled(r, IF isUserInRegistration(r, from)
                              THEN RegistrationProgress
                              ELSE IF isUserInBusinessRegistration(r, from)
                              THEN BusinessRegistrationProgress
                              ELSE NoRegistration))})
           ELSE IF lowerMessage = "reset"
           THEN Stop({Routed("reset",
                   IF isUserInRegistration(r, from)
                   THEN resetUserRegistration(r, from)
                   ELSE IF isUserInBusinessRegistration(r, from)
                   THEN resetBusinessUserRegistration(r, from)
                   ELSE Handled(r, NothingToReset))})
           ELSE Pass(r)
  IN section.done
       \cup UNION {RouteExchangeRates(r1, from, messageText, e) : r1 \in section.pass}

MoneyIntents == {"SEND_MONEY", "COLLECT_MONEY", "GENERAL_QUERY"}

\* what the money-intent classifier may answer
MoneyIntentAnswers == MoneyIntents \cup {"unexpected", "down"}

\* detectMoneyIntent: the classifier's answer; GENERAL_QUERY when the call
\* fails
detectMoneyIntent(answer) == IF answer = "down" THEN "GENERAL_QUERY" ELSE answer

\* the intent detectMoneyIntent returned, or the keyword fallback when that
\* is none of the three intents
MoneyIntentOf(messageText, answer) ==
  LET lowerMessage == toLowerCase(messageText)
  IN IF detectMoneyIntent(answer) \in MoneyIntents THEN detectMoneyIntent(answer)
     ELSE IF \E k \in {"send money", "want to send", "need to send",
                       "transfer money", "send cash"} :
                includes(lowerMessage, k)
     THEN "SEND_MONEY"
     ELSE IF \E k \in {"collect money", "want to collect", "need to collect",
                       "receive money", "get money", "collect cash"} :
                includes(lowerMessage, k)
     THEN "COLLECT_MONEY"
     ELSE "GENERAL_QUERY"

RouteMoneyIntent(r, from, messageText, e) ==
  LET section ==
        LET storedIntent == getString(r, "money_intent:" \o from)
            intents == {MoneyIntentOf(messageText, answer) :
                          answer \in e.moneyAnswers}
        IN IF storedIntent = Nil
           THEN [done |->
                   {Routed("money_intent",
                      Handled(setEx(r, "money_intent:" \o from, 300, moneyIntent),
                              VerificationRequired)) :
                      moneyIntent \in intents \cap {"SEND_MONEY", "COLLECT_MONEY"}},
                 pass |-> IF "GENERAL_QUERY" \in intents THEN {r} ELSE {}]
           ELSE IF handleExitRequest(messageText)
           THEN Stop({Routed("money_exit", exitFromAllFlows(r, from))})
           ELSE Stop({Routed("verification",
                             handleUserVerification(r, from, messageText))})
  IN section.done
       \cup UNION {RouteCommands(r1, from, messageText, e) : r1 \in section.pass}

\* the registration_step marker: no code path writes it
RouteEmailCheck(r, from, messageText, e) ==
  LET section ==
        LET email == ExtractEmail(messageText)
            registrationType == getString(r, "registration_intent:" \o from)
            cleared == <<"registration_intent:" \o from, "registration_step:" \o from>>
        IN IF getString(r, "registration_step:" \o from) # "email_check"
           THEN Pass(r)
           ELSE IF handleExitRequest(messageText)
           THEN Stop({Routed("email_check_exit", exitFromAllFlows(r, from))})
           ELSE IF email = Nil
           THEN Stop({Routed("email_check", Handled(r, InvalidEmailFormat))})
           ELSE IF userExists(r, email)
           THEN Stop({Routed("email_check", ResumeVerified(r, from, email, cleared))})
           ELSE IF registrationType \in {"individual", "business"}
           THEN LET started == IF registrationType = "individual"
                               THEN startUserRegistration(r, from)
                               ELSE startBusinessUserRegistration(r, from)
                IN Stop({Routed("email_check",
                           Handled(delAll(started.redis,
                                          cleared \o <<"user_email:" \o from>>),
                                   started.reply))})
           ELSE Pass(r)
  IN section.done
       \cup UNION {RouteMoneyIntent(r1, from, messageText, e) : r1 \in section.pass}

RouteRegistrationIntent(r, from, messageText, e) ==
  LET section ==
        LET lowerResponse == toLowerCase(messageText)
            email == ExtractEmail(messageText)
            cleared == <<"registration_intent:" \o from, "user_email:" \o from>>
        IN IF getString(r, "registration_intent:" \o from) # "pending"
           THEN Pass(r)
           ELSE IF handleExitRequest(messageText)
           THEN Stop({Routed("registration_intent_exit", exitFromAllFlows(r, from))})
           ELSE IF email # Nil /\ userExists(r, email)
           THEN Stop({Routed("registration_intent_known",
                             ResumeVerified(r, from, email, cleared))})
           ELSE IF email # Nil
           THEN Stop({Routed("registration_intent_unknown",
                        Handled(setEx(r, "user_email:" \o from, 300, email),
                                AccountNotFound))})
           ELSE IF \E k \in {"individual", "personal", "person"} :
                      includes(lowerResponse, k)
           THEN LET started == startUserRegistration(r, from)
                IN Stop({Routed("choose_individual",
                           Handled(delAll(started.redis, cleared), started.reply))})
           ELSE IF \E k \in {"business", "company", "corporate"} :
                      includes(lowerResponse, k)
           THEN LET started == startBusinessUserRegistration(r, from)
                IN Stop({Routed("choose_business",
                           Handled(delAll(started.redis, cleared), started.reply))})
           ELSE Stop({Routed("registration_intent_invalid",
                             Handled(r, InvalidSelection))})
  IN section.done
       \cup UNION {RouteEmailCheck(r1, from, messageText, e) : r1 \in section.pass}

RouteRegisterCommand(r, from, messageText, e) ==
  LET section ==
        LET lowerMessage == toLowerCase(messageText)
        IN IF \E k \in {"register", "signup", "create account"} :
                includes(lowerMessage, k)
           THEN Stop({Routed("register_command",
                   Handled(setEx(r, "registration_intent:" \o from, 300, "pending"),
                           RegisterPrompt))})
           ELSE Pass(r)
  IN section.done
       \cup UNION {RouteRegistrationIntent(r1, from, messageText, e) : r1 \in section.pass}

RouteCollectMoney(r, from, messageText, isDocument, e) ==
  LET section ==
        IF ~isUserInCollectMoneyFlow(r, from) THEN Pass(r)
        ELSE IF ~isDocument /\ handleExitRequest(messageText)
        THEN Stop({Routed("collect_exit", exitFromAllFlows(r, from))})
        ELSE LET \* a document's buffer is read from pdf_<from> and the key deleted
                 r1 == IF isDocument THEN del(r, "pdf_" \o from) ELSE r
             IN Answer("collect_money",
                       {processCollectMoneyStep(r1, from, messageText, isDocument,
                                                outcome) : outcome \in e.outcomes},
                       r1)
  IN section.done
       \cup UNION {RouteRegisterCommand(r2, from, messageText, e) : r2 \in section.pass}

RouteBusiness(r, from, messageText, isDocument, e) ==
  LET section ==
        IF ~isUserInBusinessRegistration(r, from) THEN Pass(r)
        ELSE IF handleExitRequest(messageText)
        THEN Stop({Routed("business_exit", exitFromAllFlows(r, from))})
        ELSE Answer("business_registration",
                    {processBusinessUserRegistrationStep(r, from, messageText,
                                                         verdicts, outcome) :
                       verdicts \in VerdictsAt(getBusinessUserCreationState(r, from), e),
                       outcome \in OutcomesAt(getBusinessUserCreationState(r, from), e)},
                    r)
  IN section.done
       \cup UNION {RouteCollectMoney(r1, from, messageText, isDocument, e) : r1 \in section.pass}

\* the individual section without its exit check
RouteIndividualSkippingExit(r, from, messageText, isDocument, e) ==
  LET section ==
        IF ~isUserInRegistration(r, from) THEN Pass(r)
        ELSE Answer("individual_registration",
                    IF getUserCreationState(r, from).currentStep = "confirmation"
                    THEN {handleConfirmationStep(r, from, messageText, outcome) :
                            outcome \in e.outcomes}
                    ELSE {processUserRegistrationStep(r, from, messageText,
                                                      verdicts, outcome) :
                            verdicts \in VerdictsAt(getUserCreationState(r, from), e),
                            outcome \in OutcomesAt(getUserCreationState(r, from), e)},
                    r)
  IN section.done
       \cup UNION {RouteBusiness(r1, from, messageText, isDocument, e) : r1 \in section.pass}

RouteIndividual(r, from, messageText, isDocument, e) ==
  LET section ==
        IF ~isUserInRegistration(r, from) THEN Pass(r)
        ELSE IF handleExitRequest(messageText)
        THEN Stop({Routed("individual_exit", exitFromAllFlows(r, from))})
        ELSE Answer("individual_registration",
                    IF getUserCreationState(r, from).currentStep = "confirmation"
                    THEN {handleConfirmationStep(r, from, messageText, outcome) :
                            outcome \in e.outcomes}
                    ELSE {processUserRegistrationStep(r, from, messageText,
                                                      verdicts, outcome) :
                            verdicts \in VerdictsAt(getUserCreationState(r, from), e),
                            outcome \in OutcomesAt(getUserCreationState(r, from), e)},
                    r)
  IN section.done
       \cup UNION {RouteBusiness(r1, from, messageText, isDocument, e) : r1 \in section.pass}

\* processMessage: every result the handling of one message can have
processMessage(r, from, messageText, isDocument, e) ==
  LET section ==
        IF ~isUserInFiatToCryptoFlow(r, from) THEN Pass(r)
        ELSE IF handleExitRequest(messageText)
        THEN Stop({Routed("fiat_crypto_exit", exitFromAllFlows(r, from))})
        ELSE Answer("fiat_crypto_flow",
                    {processFiatToCryptoStep(r, from, messageText, outcome) :
                       outcome \in OutcomesAt(getFiatToCryptoState(r, from), e)},
                    r)
  IN section.done
       \cup UNION {RouteIndividual(r1, from, messageText, isDocument, e) : r1 \in section.pass}

----------------------------------------------------------------------------
(* The environment: who writes, what they write, what the collaborators    *)
(* answer.                                                                  *)

TestWhatsappNumber == "1234567890"

Users == {TestWhatsappNumber}

EmptyStore == [k \in {} |-> [val |-> Nil, ex |-> 0]]

\* Registration conversations: the intent classifiers are unreachable, so
\* the router decides on keywords
RegistrationEnv ==
  [users |-> Users,
   texts |-> { IndividualBulk, IndividualBulkBadEmail, IndividualBulkShort,
               BusinessBulk, BusinessBulkBadDate, BusinessBulkShort,
               "confirm", "YES", " y ", "Edit", "maybe", "exit",
               "cancel, send money", "register", "status", "reset", "help",
               "Individual", "business" },
   documents |-> DocumentNames,
   downloads |-> {FALSE},
   store |-> EmptyStore,
   verdicts |-> {AllDown, InvalidAt(8)},
   outcomes |-> RemoteOutcomes,
   moneyAnswers |-> {"down"},
   ratesAnswers |-> {"down"},
   currencyAnswers |-> {"NONE"}]

\* Quote conversations: fiat-to-crypto quotes and live rates
QuoteEnv ==
  [users |-> Users,
   texts |-> { FiatBulk, FiatBulkBad, FiatBulkShort, "confirm", "YES", " y ",
               "Edit", "maybe", "exit", "fiat to crypto", "live rates", "PHP",
               "XYZQ123", "status" },
   documents |-> DocumentNames,
   downloads |-> {FALSE},
   store |-> EmptyStore,
   verdicts |-> {AllDown},
   outcomes |-> RemoteOutcomes,
   moneyAnswers |-> {"GENERAL_QUERY", "SEND_MONEY", "unexpected"},
   ratesAnswers |-> RatesIntentAnswers,
   currencyAnswers |-> CurrencyAnswers]

\* the record a successful individual registration with IndividualBulk leaves
RegisteredStore ==
  storeUserData(EmptyStore, "al@x.io",
    [firstName |-> "Al", lastName |-> "Roe", email |-> "al@x.io",
     date |-> "15-03-1990", country |-> "IN", gender |-> "male",
     phone |-> "9876543210",
     address |-> [street |-> "1 Elm St", city |-> "Pune",
                  postalCode |-> "400001", state |-> "MH"],
     whatsappNumber |-> TestWhatsappNumber,
     userId |-> "remote-id", userType |-> "individual"])

\* Money conversations: a registered sender asks to collect or send money,
\* is verified by email and uploads an invoice
MoneyEnv ==
  [users |-> Users,
   texts |-> { "I want to collect money", "send money", "al@x.io",
               OrderBulk, OrderBulkBad, OrderBulkPartner, OrderBulkFull,
               OrderBulkShort, "exit", "register", "Individual",
               "maybe" },
   documents |-> DocumentNames,
   downloads |-> BOOLEAN,
   store |-> RegisteredStore,
   verdicts |-> {AllDown},
   outcomes |-> {"created", "http_500"},
   moneyAnswers |-> {"unexpected", "down"},
   ratesAnswers |-> {"down"},
   currencyAnswers |-> {"NONE"}]

Envs ==
  [registration |-> RegistrationEnv, quote |-> QuoteEnv, money |-> MoneyEnv]

\* the process starts with the store in use and nothing in fallbackStorage
InitialMemory ==
  [useFallbackStorage |-> FALSE,
   conversations |-> [u \in {} |-> <<>>],
   processedMessages |-> {}]

Init ==
  /\ env \in DOMAIN Envs
  /\ redis = Envs[env].store
  /\ last = [kind |-> "start"]
  /\ memory = InitialMemory

\* POST /webhook with a text message
ReceiveText ==
  \E from \in Envs[env].users, messageText \in Envs[env].texts :
    \E done \in processMessage(redis, from, messageText, FALSE, Envs[env]) :
       /\ redis' = done.redis
       /\ last' = [kind |-> "text", from |-> from, text |-> messageText,
                   section |-> done.section, reply |-> done.reply,
                   remote |-> done.remote]
       /\ UNCHANGED <<env, memory>>

\* POST /webhook with a document: the download, when it succeeds, leaves the
\* buffer under pdf_<from> for five minutes
ReceiveDocument ==
  \E from \in Envs[env].users, filename \in Envs[env].documents,
     downloaded \in Envs[env].downloads :
    \E done \in processMessage(
                  IF downloaded THEN setEx(redis, "pdf_" \o from, 300, "base64")
                  ELSE redis, from, filename, TRUE, Envs[env]) :
       /\ redis' = done.redis
       /\ last' = [kind |-> "document", from |-> from, text |-> filename,
                   section |-> done.section, reply |-> done.reply,
                   remote |-> done.remote]
       /\ UNCHANGED <<env, memory>>

\* GET /test/registration
TestRegistration ==
  /\ redis' = startBusinessUserRegistration(
                startUserRegistration(redis, TestWhatsappNumber).redis,
                TestWhatsappNumber).redis
  /\ last' = [kind |-> "test_registration"]
  /\ UNCHANGED <<env, memory>>

\* a key reaches the end of its time to live
Expire ==
  \E key \in DOMAIN redis :
    /\ redis' = del(redis, key)
    /\ last' = [kind |-> "expire", key |-> key]
    /\ UNCHANGED <<env, memory>>

Next == ReceiveText \/ ReceiveDocument \/ TestRegistration \/ Expire

Spec == Init /\ [][Next]_vars

\* the runs of one environment
InitRegistration == Init /\ env = "registration"

SpecRegistration == InitRegistration /\ [][Next]_vars

InitQuote == Init /\ env = "quote"

SpecQuote == InitQuote /\ [][Next]_vars

InitMoney == Init /\ env = "money"

SpecMoney == InitMoney /\ [][Next]_vars

----------------------------------------------------------------------------
(* Properties *)

\* the last request was a message of a user, handled by processMessage
Inbound(l) == l.kind \in {"text", "document"}

\* the keys under which the flows keep a user's FlowState
FlowKeys(u) ==
  {getUserCreationKey(u), getBusinessUserCreationKey(u), CollectMoneyKey(u),
   getFiatToCryptoKey(u), getExchangeRatesKey(u)}

\* the keys of a user's short-lived markers
MarkerKeys(u) ==
  {"money_intent:" \o u, "registration_intent:" \o u,
   "registration_step:" \o u, "user_email:" \o u,
   "pending_money_intent:" \o u, "pdf_" \o u}

\* the sections that are the exit handling of a flow
FlowExitSections ==
  {"fiat_crypto_exit", "individual_exit", "business_exit", "collect_exit",
   "rates_exit"}

\* the sections that are the step function of a flow
FlowStepSections ==
  {"fiat_crypto_flow", "individual_registration", "business_registration",
   "collect_money"}

\* the user has an active FlowState in one of the four stateful flows
InActiveFlow(r, u) ==
  \/ isUserInFiatToCryptoFlow(r, u)
  \/ isUserInRegistration(r, u)
  \/ isUserInBusinessRegistration(r, u)
  \/ isUserInCollectMoneyFlow(r, u)

\* C1: after the router handled an exit keyword for a user inside a flow, no
\* flow-namespace key and no marker key of that user is left in the store.
C1_ExitLeavesNoFlowOrMarkerKey ==
  (Inbound(last) /\ last.section \in FlowExitSections)
    => \A k \in FlowKeys(last.from) \cup MarkerKeys(last.from) :
         k \notin DOMAIN redis

\* C2: a message of a user with an active FlowState (individual or business
\* registration, collect-money, fiat-to-crypto) is handled by a flow's step
\* function or by exit handling, never by a section after the flows.
C2_ActiveFlowNeverFallsThrough ==
  [][(Inbound(last') /\ InActiveFlow(redis, last'.from))
       => last'.section \in FlowStepSections \cup FlowExitSections]_vars

\* the bulk-mode flows: where each keeps its state, its fields, and how the
\* router names its step function and its confirmation prompt
BulkFlows ==
  { [name |-> "individual", type |-> "user_registration",
     prefix |-> REDIS_KEY_PREFIX, steps |-> USER_REGISTRATION_FLOW,
     addressFields |-> UserAddressFields,
     section |-> "individual_registration", prompt |-> ConfirmYourDetails],
    [name |-> "business", type |-> "business_user_registration",
     prefix |-> BUSINESS_REDIS_KEY_PREFIX,
     steps |-> BUSINESS_USER_REGISTRATION_FLOW,
     addressFields |-> BusinessAddressFields,
     section |-> "business_registration",
     prompt |-> ConfirmYourBusinessDetails],
    [name |-> "fiat_to_crypto", type |-> "fiat_to_crypto",
     prefix |-> FIAT_TO_CRYPTO_KEY_PREFIX, steps |-> FIAT_TO_CRYPTO_FLOW,
     addressFields |-> {},
     section |-> "fiat_crypto_flow", prompt |-> ConfirmYourConversion] }

RegistrationFlows == {F \in BulkFlows : F.name # "fiat_to_crypto"}

\* the FlowState of user u in flow F, or NullState
FlowState(r, F, u) == getJSON(r, F.prefix \o ":" \o u)

AtStep(r, F, u, step) ==
  /\ FlowState(r, F, u) # NullState
  /\ FlowState(r, F, u).currentStep = step

\* the value passes the validator of its field under some answer the
\* classifier gives in the environment
Validated(F, value, validationType) ==
  IF F.name = "fiat_to_crypto"
  THEN validateFiatToCryptoInput(value, validationType)
  ELSE \E profile \in Envs[env].verdicts, i \in 1..Len(F.steps) :
         validateUserInput(value, validationType, profile[i])

\* collectedData holds a validated value for every field of the flow, the
\* address fields nested under address, and nothing else
Complete(F, collectedData) ==
  LET plain == FieldsOf(F.steps) \ F.addressFields
      TypeOf(f) == F.steps[StepIndex(F.steps, f)].validation
  IN /\ DOMAIN collectedData =
          plain \cup (IF F.addressFields = {} THEN {} ELSE {"address"})
     /\ \A f \in plain : Validated(F, collectedData[f], TypeOf(f))
     /\ F.addressFields # {} =>
          /\ DOMAIN collectedData.address = F.addressFields
          /\ \A f \in F.addressFields :
               Validated(F, collectedData.address[f], TypeOf(f))

C3_ConfirmationIsComplete ==
  \A F \in BulkFlows, u \in Users :
    AtStep(redis, F, u, "confirmation")
      => Complete(F, FlowState(redis, F, u).collectedData)

C3_ConfirmationOnlyFromStepZero ==
  \A F \in BulkFlows, u \in Users :
    (AtStep(redis', F, u, "confirmation")
       /\ FlowState(redis', F, u) # FlowState(redis, F, u))
      => /\ AtStep(redis, F, u, "0")
         /\ Inbound(last') /\ last'.from = u
         /\ last'.section = F.section /\ last'.reply = F.prompt

\* C3: a FlowState at confirmation holds a validated value for every field of
\* its flow and no other key, and a flow comes to confirmation only from step
\* 0, by one submission that the bulk handler accepted whole.
C3_ConfirmationHoldsAllFields ==
  []C3_ConfirmationIsComplete /\ [][C3_ConfirmationOnlyFromStepZero]_vars

\* an individual registration is at confirmation after an accepted submission
C3_Witness ==
  /\ Inbound(last) /\ last.reply = ConfirmYourDetails
  /\ AtStep(redis, CHOOSE F \in BulkFlows : F.name = "individual", last.from,
            "confirmation")

\* the last message was a step-0 submission of user u to the bulk handler of
\* flow F (in the step that handled it)
BulkSubmission(F, u) ==
  /\ Inbound(last') /\ last'.from = u /\ last'.section = F.section
  /\ AtStep(redis, F, u, "0")

\* C4: a step-0 submission with fewer non-empty lines than the flow has
\* fields is rejected as incomplete, and the stored FlowState is the same
\* after the rejection as before it.
C4_ShortSubmissionRejectedUnchanged ==
  [][\A F \in BulkFlows, u \in Users :
       (BulkSubmission(F, u)
          /\ Len(TrimmedLines(last'.text)) < Len(F.steps))
         => /\ last'.reply = IncompleteInformation
            /\ FlowState(redis', F, u) = FlowState(redis, F, u)]_vars

\* a short submission was rejected while a business registration was at step 0
C4_Witness ==
  /\ Inbound(last) /\ last.section = "business_registration"
  /\ last.text = BusinessBulkShort /\ last.reply = IncompleteInformation
  /\ AtStep(redis, CHOOSE F \in BulkFlows : F.name = "business", last.from, "0")

\* the FlowState a flow starts with: step 0 and nothing collected
FreshFlowState(F, u) ==
  [type |-> F.type, currentStep |-> "0", collectedData |-> EmptyData,
   whatsappNumber |-> u]

\* C5: a step-0 submission with enough lines that the bulk handler does not
\* accept, because a field failed validation, is answered with the list of
\* validation errors and leaves the FlowState at step 0 with empty
\* collectedData, as the flow started: no value of the rejected attempt is
\* stored for the next one.
C5_FailedSubmissionKeepsNothing ==
  [][\A F \in BulkFlows, u \in Users :
       (BulkSubmission(F, u)
          /\ Len(TrimmedLines(last'.text)) >= Len(F.steps)
          /\ last'.reply # F.prompt)
         => /\ last'.reply = ValidationErrorsFound
            /\ FlowState(redis', F, u) = FreshFlowState(F, u)]_vars

\* a fiat-to-crypto submission with a failing amount and payment method was
\* rejected, and the flow is at step 0 with nothing collected
C5_Witness ==
  /\ Inbound(last) /\ last.section = "fiat_crypto_flow"
  /\ last.text = FiatBulkBad /\ last.reply = ValidationErrorsFound
  /\ \E F \in BulkFlows :
       /\ F.name = "fiat_to_crypto"
       /\ FlowState(redis, F, last.from) = FreshFlowState(F, last.from)

\* user u, whose FlowState in flow F is at confirmation, sends the message
\* that this step handles
AtConfirmationSends(F, u) ==
  /\ AtStep(redis, F, u, "confirmation")
  /\ Inbound(last') /\ last'.kind = "text" /\ last'.from = u

Confirms(text) == trim(toLowerCase(text)) \in {"confirm", "yes", "y"}

ConflictReply(F) ==
  IF F.name = "business" THEN BusinessAlreadyExists ELSE AlreadyExists

\* C6: confirm, yes or y, in any case, sent while a registration FlowState is
\* at confirmation is handled by that registration's confirmation step, which
\* makes the remote account-creation call; when the remote answers success or
\* conflict the FlowState is absent afterwards, and on conflict the reply is
\* the already-exists message.
C6_ConfirmSubmitsAndClears ==
  [][\A F \in RegistrationFlows, u \in Users :
       (AtConfirmationSends(F, u) /\ Confirms(last'.text))
         => /\ last'.section = F.section
            /\ last'.remote \in RemoteOutcomes
            /\ (RemoteOk(last'.remote) \/ last'.remote = "http_409")
                 => FlowState(redis', F, u) = NullState
            /\ last'.remote = "http_409" => last'.reply = ConflictReply(F)]_vars

\* a business registration was confirmed with YES, the remote reported a
\* conflict, and the FlowState is gone
C6_Witness ==
  /\ last.kind = "text" /\ last.section = "business_registration"
  /\ last.text = "YES" /\ last.remote = "http_409"
  /\ last.reply = BusinessAlreadyExists
  /\ \A F \in RegistrationFlows :
       F.name = "business" => FlowState(redis, F, last.from) = NullState

\* C7: edit, in any case, sent while a FlowState of individual registration,
\* business registration or fiat-to-crypto is at confirmation leaves a
\* FlowState of the same flow at step 0 with empty collectedData.
C7_EditReturnsToStepZero ==
  [][\A F \in BulkFlows, u \in Users :
       (AtConfirmationSends(F, u) /\ trim(toLowerCase(last'.text)) = "edit")
         => /\ last'.section = F.section
            /\ FlowState(redis', F, u) = FreshFlowState(F, u)]_vars

\* Edit was sent at the confirmation of an individual registration, which is
\* at step 0 with nothing collected again
C7_Witness ==
  /\ last.kind = "text" /\ last.section = "individual_registration"
  /\ last.text = "Edit" /\ last.reply = UserWelcome
  /\ \A F \in BulkFlows :
       F.name = "individual"
         => FlowState(redis, F, last.from) = FreshFlowState(F, last.from)

RemoteUnavailable(outcome) == outcome \in {"network_error", "http_500"}

\* C8: when confirm, yes or y is sent at the confirmation of a registration
\* and the remote account-creation call is unavailable (timeout, network
\* error or 5xx), the FlowState stays at confirmation with its collectedData.
C8_UnavailableKeepsConfirmation ==
  [][\A F \in RegistrationFlows, u \in Users :
       (AtConfirmationSends(F, u) /\ Confirms(last'.text)
          /\ RemoteUnavailable(last'.remote))
         => FlowState(redis', F, u) = FlowState(redis, F, u)]_vars

Individual == CHOOSE F \in BulkFlows : F.name = "individual"

\* C9: when an individual registration that came to confirmation by a valid
\* submission is confirmed and the remote call succeeds, the FlowState is
\* absent afterwards and a UserRecord is stored under the submitted email.
C9_ConfirmedRegistrationLeavesRecord ==
  [][\A u \in Users :
       (AtConfirmationSends(Individual, u) /\ Confirms(last'.text)
          /\ RemoteOk(last'.remote))
         => /\ FlowState(redis', Individual, u) = NullState
            /\ userExists(redis',
                 FlowState(redis, Individual, u).collectedData.email)]_vars

IsUserDataKey(key) ==
  /\ Len(key) > Len(USER_DATA_PREFIX)
  /\ SubSeq(key, 1, Len(USER_DATA_PREFIX) + 1) = USER_DATA_PREFIX \o ":"

\* C10: a UserRecord comes into the store only in the step that confirms a
\* registration and whose remote account-creation call returned success; no
\* step that ends in a conflict, a remote error, a validation failure, an
\* exit or an expiry creates one.
C10_RecordOnlyFromRemoteSuccess ==
  [][\A key \in DOMAIN redis' \ DOMAIN redis :
       IsUserDataKey(key)
         => /\ last'.kind = "text" /\ Confirms(last'.text)
            /\ last'.section \in {F.section : F \in RegistrationFlows}
            /\ RemoteOk(last'.remote)]_vars

\* a business registration was confirmed, the remote created the account and
\* the record of the submitted email is in the store
C10_Witness ==
  /\ last.kind = "text" /\ last.section = "business_registration"
  /\ last.remote = "created"
  /\ getUserDataKey("ops@acme.io") \in DOMAIN redis

\* the namespaces that hold a FlowState, and the currentStep values at which
\* the engine of each takes input
FlowNamespaces ==
  { [prefix |-> REDIS_KEY_PREFIX, steps |-> {"0", "confirmation"}],
    [prefix |-> BUSINESS_REDIS_KEY_PREFIX, steps |-> {"0", "confirmation"}],
    [prefix |-> FIAT_TO_CRYPTO_KEY_PREFIX, steps |-> {"0", "confirmation"}],
    [prefix |-> "collect_money", steps |-> {"0", "1"}],
    [prefix |-> EXCHANGE_RATES_KEY_PREFIX, steps |-> {"waiting_for_currency"}] }

\* C11: the FlowState of every user in every flow namespace is absent, or at
\* a step at which the engine of the flow accepts input, or at confirmation.
C11_FlowStateAtAcceptedStep ==
  \A N \in FlowNamespaces, u \in Users :
    LET state == getJSON(redis, N.prefix \o ":" \o u)
    IN state = NullState \/ state.currentStep \in N.steps

\* the keys of the four multi-step flows under which user u has a FlowState
MultiStepFlowStates(r, u) ==
  {key \in {getUserCreationKey(u), getBusinessUserCreationKey(u),
            CollectMoneyKey(u), getFiatToCryptoKey(u)} : key \in DOMAIN r}

\* user u has a FlowState in at most one of those namespaces
AtMostOneFlow(r, u) == Cardinality(MultiStepFlowStates(r, u)) <= 1

\* C12: flows are mutually exclusive: a user has a FlowState in at most one of
\* the four multi-step flow namespaces (individual registration, business
\* registration, collect-money, fiat-to-crypto), and no message of a user
\* who has at most one leaves that user with two.
C12_NoMessageStartsSecondFlow ==
  [][\A u \in Users :
       (Inbound(last') /\ last'.from = u /\ AtMostOneFlow(redis, u))
         => AtMostOneFlow(redis', u)]_vars

\* the sections processMessage returns from after it has called an intent
\* classifier (detectMoneyIntent, detectExchangeRatesIntent) on the message
ClassifierSections ==
  {"money_intent", "help", "status", "reset", "rates_exit", "rates_flow",
   "rates_intent_fiat_crypto", "rates_intent", "fiat_crypto_keywords",
   "default"}

InRegistrationFlow(r, u) ==
  isUserInRegistration(r, u) \/ isUserInBusinessRegistration(r, u)

\* C13: a message with an exit keyword from a user with an active
\* registration FlowState is answered by exit handling, in a section that is
\* reached before any intent classifier is called, also when the text holds
\* money keywords such as 'send money'.
C13_ExitBeforeIntentClassifier ==
  [][\A u \in Users :
       (Inbound(last') /\ last'.from = u /\ InRegistrationFlow(redis, u)
          /\ handleExitRequest(last'.text))
         => /\ last'.section \in FlowExitSections
            /\ last'.section \notin ClassifierSections
            /\ last'.reply = Exited]_vars

\* 'cancel, send money' was sent during an individual registration and was
\* answered by the exit handling of that section
C13_Witness ==
  /\ Inbound(last) /\ last.text = "cancel, send money"
  /\ last.section = "individual_exit" /\ last.reply = Exited

\* user u has a short-lived marker that awaits an answer: the registration
\* type question, or the email of a stored money intent
PendingMarker(r, u) ==
  \/ getString(r, "registration_intent:" \o u) = "pending"
  \/ getString(r, "money_intent:" \o u) # Nil

HasRegisterKeyword(text) ==
  \E k \in {"register", "signup", "create account"} :
    includes(toLowerCase(text), k)

\* C14: a message of a user who has no active flow but a pending marker is
\* taken as the answer to the pending question, also when it holds a
\* register keyword: the register command rule does not take it.
C14_PendingMarkerBeforeRegisterCommand ==
  [][\A u \in Users :
       (Inbound(last') /\ last'.from = u /\ ~InActiveFlow(redis, u)
          /\ PendingMarker(redis, u) /\ HasRegisterKeyword(last'.text))
         => last'.section # "register_command"]_vars

\* user u has none of the markers processMessage reads before the commands
NoMarker(r, u) ==
  /\ getString(r, "registration_intent:" \o u) = Nil
  /\ getString(r, "registration_step:" \o u) = Nil
  /\ getString(r, "money_intent:" \o u) = Nil

CommandSectionOf(text) ==
  IF toLowerCase(text) \in {"help", "commands"} THEN "help" ELSE toLowerCase(text)

\* C15: with no active flow and no pending marker, a message that is help,
\* commands, status or reset is answered by its command handler, whatever
\* label the money-intent classifier gives the message.
C15_CommandNotTakenByMoneyIntent ==
  [][\A u \in Users :
       (Inbound(last') /\ last'.kind = "text" /\ last'.from = u
          /\ ~InActiveFlow(redis, u) /\ NoMarker(redis, u)
          /\ toLowerCase(last'.text) \in {"help", "commands", "status", "reset"})
         => last'.section = CommandSectionOf(last'.text)]_vars

Business == CHOOSE F \in BulkFlows : F.name = "business"

\* the registration flow the register command selects for the text
RegisterSelects(text) ==
  IF \E k \in {"business", "company", "corporate"} :
       includes(toLowerCase(text), k)
  THEN Business ELSE Individual

\* C16: with no active flow and no pending marker, a message with a register
\* keyword starts the individual registration flow, or the business one when
\* it also holds 'business', 'company' or 'corporate'; after the message the
\* FlowState of that flow exists at step 0.
C16_RegisterStartsFlow ==
  [][\A u \in Users :
       (Inbound(last') /\ last'.kind = "text" /\ last'.from = u
          /\ ~InActiveFlow(redis, u) /\ NoMarker(redis, u)
          /\ HasRegisterKeyword(last'.text))
         => AtStep(redis', RegisterSelects(last'.text), u, "0")]_vars

\* user u is in the collect-money flow at the step, and in no flow that
\* processMessage asks before it
CollectMoneyAt(r, u, step) ==
  /\ isUserInCollectMoneyFlow(r, u)
  /\ getCollectMoneyState(r, u).currentStep = step
  /\ ~isUserInFiatToCryptoFlow(r, u)
  /\ ~InRegistrationFlow(r, u)

\* the message is of the kind the collect-money step does not expect: a text
\* (that asks for no exit) at step 0, a document at step 1
UnexpectedKind(r, u, kind, text) ==
  \/ CollectMoneyAt(r, u, "0") /\ kind = "text" /\ ~handleExitRequest(text)
  \/ CollectMoneyAt(r, u, "1") /\ kind = "document"

\* C17: in the collect-money flow a text at step 0 or a document at step 1
\* is answered by the collect-money engine, is handed on to no other routing
\* rule, and leaves the collect-money FlowState as it was.
C17_UnexpectedKindAnsweredByEngine ==
  [][\A u \in Users :
       (Inbound(last') /\ last'.from = u
          /\ UnexpectedKind(redis, u, last'.kind, last'.text))
         => /\ last'.section = "collect_money"
            /\ getCollectMoneyState(redis', u) = getCollectMoneyState(redis, u)]_vars

IsLetter(c) == c \in Letters

\* the lines hold the four required values of an order: an amount that
\* reads as a number of at least 1, a currency of three letters, a purpose
\* code and a payment type
RequiredOrderValues(lines) ==
  /\ Len(lines) >= 4
  /\ ~parseInt(lines[1]).isNaN /\ parseInt(lines[1]).n >= 1
  /\ Len(lines[2]) = 3 /\ AllChars(lines[2], IsLetter)

\* the last message was a text to the order step of user u's collect-money
\* flow (in the step that handled it)
OrderSubmission(u) ==
  /\ Inbound(last') /\ last'.kind = "text" /\ last'.from = u
  /\ CollectMoneyAt(redis, u, "1") /\ ~handleExitRequest(last'.text)

C18_WitnessRejected ==
  /\ Inbound(last) /\ last.text = OrderBulkShort
  /\ last.reply = OrderValidationError
  /\ CollectMoneyAt(redis, last.from, "1")

\* the text is a currency code: one to ten letters, spaces around them aside
IsCurrencyCode(text) ==
  /\ Len(trim(text)) >= 1 /\ Len(trim(text)) <= 10
  /\ AllChars(trim(text), IsLetter)

WaitingForCurrency(r, u) ==
  /\ isUserInExchangeRatesFlow(r, u) # NullState
  /\ isUserInExchangeRatesFlow(r, u).currentStep = "waiting_for_currency"

\* C19: when processExchangeRatesStep answers a user who is waiting for a
\* currency: a valid code whose rates are fetched gives the message with the
\* deposit and the withdraw rate and clears the exchange-rates state; a code
\* that is not valid (XYZQ123) gives the invalid-currency message and the
\* waiting state is kept.
C19_RatesStepClearsOrRetains ==
  [][\A u \in Users :
       (Inbound(last') /\ last'.from = u /\ last'.section = "rates_flow"
          /\ WaitingForCurrency(redis, u))
         => /\ (IsCurrencyCode(last'.text) /\ RemoteOk(last'.remote))
                 => /\ EvalIncludes(last'.reply, "Deposit Rate")
                    /\ EvalIncludes(last'.reply, "Withdraw Rate")
                    /\ isUserInExchangeRatesFlow(redis', u) = NullState
            /\ ~IsCurrencyCode(last'.text)
                 => /\ last'.reply = InvalidCurrency
                    /\ isUserInExchangeRatesFlow(redis', u)
                         = isUserInExchangeRatesFlow(redis, u)]_vars

\* XYZQ123 was answered as an invalid currency and the user still waits
C19_Witness ==
  /\ Inbound(last) /\ last.text = "XYZQ123" /\ last.section = "rates_flow"
  /\ last.reply = InvalidCurrency /\ WaitingForCurrency(redis, last.from)

\* PHP was answered with the rates and the exchange-rates state is gone
C19_WitnessRates ==
  /\ Inbound(last) /\ last.text = "PHP" /\ last.section = "rates_flow"
  /\ last.reply = RatesReply
  /\ isUserInExchangeRatesFlow(redis, last.from) = NullState

\* in the environment of the run the money-intent classifier is unavailable
\* or answers with a label outside the allowed set
ClassifierUnusable == Envs[env].moneyAnswers \subseteq {"down", "unexpected"}

\* the message of user u comes to money-intent detection: no flow, no
\* marker and no register keyword take it before
ReachesMoneyIntent(r, u, text) ==
  ~InActiveFlow(r, u) /\ NoMarker(r, u) /\ ~HasRegisterKeyword(text)

\* the intent the deterministic keyword rules give the text, for the two
\* phrases of the claim
KeywordIntent(text) ==
  IF EvalIncludes(toLowerCase(text), "send money") THEN "SEND_MONEY"
  ELSE IF EvalIncludes(toLowerCase(text), "collect money") THEN "COLLECT_MONEY"
  ELSE "GENERAL_QUERY"

\* C20: when the intent classifier is unavailable or answers outside the
\* allowed set, the keyword rules decide the money intent: a message with
\* 'send money' is taken as SEND_MONEY and one with 'collect money' as
\* COLLECT_MONEY, and the intent is stored for the verification.
C20_KeywordFallbackDecides ==
  [][\A u \in Users :
       (Inbound(last') /\ last'.kind = "text" /\ last'.from = u
          /\ ClassifierUnusable /\ ReachesMoneyIntent(redis, u, last'.text)
          /\ KeywordIntent(last'.text) # "GENERAL_QUERY")
         => /\ last'.section = "money_intent"
            /\ getString(redis', "money_intent:" \o u) = KeywordIntent(last'.text)]_vars

----------------------------------------------------------------------------
(* JavaScript dates.  A Date built from a day, a month and a year is local  *)
(* midnight of a day, kept here as the number of that day (day 0 is         *)
(* 1 January 1970); new Date() is a day and whether it is exactly midnight. *)

\* Number(s) for a string of digits
RECURSIVE ToNumber(_)
ToNumber(s) ==
  IF Len(s) = 0 THEN 0
  ELSE 10 * ToNumber(SubSeq(s, 1, Len(s) - 1))
         + IndexIn(CharAt(s, Len(s)), DigitChars) - 1

\* the day number of day d of month m (1..12) of year y; d may lie outside
\* the month
DaysFromCivil(y, m, d) ==
  LET yy == IF m <= 2 THEN y - 1 ELSE y
      era == yy \div 400
      yoe == yy % 400
      mp == (m + 9) % 12
      doy == (153 * mp + 2) \div 5 + d - 1
      doe == yoe * 365 + yoe \div 4 - yoe \div 100 + doy
  IN era * 146097 + doe - 719468

\* getFullYear, getMonth (0..11) and getDate of a day number
CivilFromDays(z) ==
  LET zz == z + 719468
      era == zz \div 146097
      doe == zz % 146097
      yoe == (doe - doe \div 1460 + doe \div 36524 - doe \div 146096) \div 365
      doy == doe - (365 * yoe + yoe \div 4 - yoe \div 100)
      mp == (5 * doy + 2) \div 153
      m == IF mp < 10 THEN mp + 3 ELSE mp - 9
  IN [year |-> yoe + era * 400 + (IF m <= 2 THEN 1 ELSE 0),
      month |-> m - 1,
      date |-> doy - (153 * mp + 2) \div 5 + 1]

\* new Date(year, monthIndex, day): a year 0..99 is taken as 1900 + year, a
\* month or a day out of range carries over
NewDate(year, monthIndex, day) ==
  LET y == IF year \in 0..99 THEN 1900 + year ELSE year
  IN DaysFromCivil(y + (monthIndex \div 12), (monthIndex % 12) + 1, 1) + day - 1

\* const [day, month, year] = input.split('-').map(Number), for an input
\* that matched /^\d{2}-\d{2}-\d{4}$/
DayMonthYear(input) ==
  LET parts == split(input, "-")
  IN [day |-> ToNumber(parts[1]), month |-> ToNumber(parts[2]),
      year |-> ToNumber(parts[3])]

\* d.setFullYear(d.getFullYear() + delta) for a Date on day number z
AddYears(z, delta) ==
  LET c == CivilFromDays(z) IN NewDate(c.year + delta, c.month, c.date)

\* the moments new Date() gives in the runs: an ordinary day and a 29th of
\* February, at midnight and later in the day
Todays ==
  {[day |-> DaysFromCivil(2026, 11, 6), midnight |-> FALSE],
   [day |-> DaysFromCivil(2026, 11, 6), midnight |-> TRUE],
   [day |-> DaysFromCivil(2028, 2, 29), midnight |-> FALSE]}

----------------------------------------------------------------------------
(* Validators of common/api_client.js.  A validation is a record of the     *)
(* verdict and the message for the user.                                    *)

Validation(valid, message) == [valid |-> valid, message |-> message]

\* what the classifier says when it answers in the expected format
ClassifierMessage == "(the classifier's message)"

OPENAI_VALIDATION_TYPES == {"email", "business_name", "address", "complex_text"}

FAST_VALIDATION_TYPES ==
  {"text", "number", "postal_code", "state", "dob", "date", "business_date",
   "gender", "phone", "country", "city"}

\* parseFloat(s): "nan", or the sign of the number that the longest numeric
\* prefix of s denotes ("positive", "zero", "negative")
parseFloat(s) ==
  LET signed == s # "" /\ CharAt(s, 1) \in {"+", "-"}
      body == IF signed THEN SubSeq(s, 2, Len(s)) ELSE s
      \* the digits and the first point that head the body
      Numeric(n) ==
        /\ \A i \in 1..n : IsDigit(CharAt(body, i)) \/ CharAt(body, i) = "."
        /\ Cardinality({i \in 1..n : CharAt(body, i) = "."}) <= 1
      n == CHOOSE k \in 0..Len(body) :
             Numeric(k) /\ \A j \in (k + 1)..Len(body) : ~Numeric(j)
      digits == {i \in 1..n : IsDigit(CharAt(body, i))}
  IN IF Len(body) >= 8 /\ SubSeq(body, 1, 8) = "Infinity"
     THEN (IF signed /\ CharAt(s, 1) = "-" THEN "negative" ELSE "positive")
     ELSE IF digits = {} THEN "nan"
     ELSE IF \A i \in digits : CharAt(body, i) = "0" THEN "zero"
     ELSE IF signed /\ CharAt(s, 1) = "-" THEN "negative"
     ELSE "positive"

\* /^[A-Z0-9\s-]{3,10}$/i
PostalRegexTest(s) ==
  /\ Len(s) >= 3 /\ Len(s) <= 10
  /\ \A i \in 1..Len(s) :
       CharAt(s, i) \in Letters \cup Digits \cup {"-"} \/ IsSpace(CharAt(s, i))

\* /^[A-Za-z\s]{2,50}$/
StateRegexTest(s) ==
  /\ Len(s) >= 2 /\ Len(s) <= 50
  /\ \A i \in 1..Len(s) : CharAt(s, i) \in Letters \/ IsSpace(CharAt(s, i))

\* /^[A-Za-z\s-]{2,50}$/
CityRegexTest(s) ==
  /\ Len(s) >= 2 /\ Len(s) <= 50
  /\ \A i \in 1..Len(s) :
       CharAt(s, i) \in Letters \cup {"-"} \/ IsSpace(CharAt(s, i))

\* /^[A-Z]{2,3}$/
CountryRegexTest(s) ==
  Len(s) \in {2, 3} /\ \A i \in 1..Len(s) : IsUpper(CharAt(s, i))

\* fastValidation; today is what new Date() gives
fastValidation(input, validationType, today) ==
  LET trimmedInput == trim(input)
      now == CivilFromDays(today.day)
  IN CASE validationType = "text" ->
            Validation(Len(trimmedInput) > 0 /\ Len(trimmedInput) <= 100,
                       IF Len(trimmedInput) = 0 THEN "Please enter a value"
                       ELSE IF Len(trimmedInput) > 100
                            THEN "Text is too long (max 100 characters)"
                            ELSE "Text is valid")
       [] validationType = "number" ->
            LET numValue == parseFloat(trimmedInput)
            IN Validation(numValue = "positive",
                          IF numValue = "nan" THEN "Please enter a valid number"
                          ELSE IF numValue # "positive"
                               THEN "Please enter a positive number"
                               ELSE "Number is valid")
       [] validationType = "postal_code" ->
            Validation(PostalRegexTest(trimmedInput),
                       IF PostalRegexTest(trimmedInput)
                       THEN "Postal code format is valid"
                       ELSE "Please enter a valid postal code (3-10 characters)")
       [] validationType = "state" ->
            Validation(StateRegexTest(trimmedInput) /\ Len(trimmedInput) >= 2,
                       IF StateRegexTest(trimmedInput) THEN "State name is valid"
                       ELSE "Please enter a valid state/province name")
       [] validationType \in {"dob", "date"} ->
            IF ~DateRegexTest(trimmedInput)
            THEN Validation(FALSE, "Please enter date in DD-MM-YYYY format")
            ELSE IF validationType = "dob"
            THEN LET p == DayMonthYear(trimmedInput)
                     birthDate == NewDate(p.year, p.month - 1, p.day)
                     birth == CivilFromDays(birthDate)
                     monthDiff == now.month - birth.month
                     age == now.year - birth.year
                              - (IF monthDiff < 0
                                    \/ (monthDiff = 0 /\ now.date < birth.date)
                                 THEN 1 ELSE 0)
                 IN Validation(age >= 18 /\ age <= 120 /\ birthDate <= today.day,
                      IF age < 18 THEN "You must be at least 18 years old"
                      ELSE IF age > 120 THEN "Please enter a valid date of birth"
                      ELSE IF birthDate > today.day
                           THEN "Date of birth cannot be in the future"
                           ELSE "Date of birth is valid")
            ELSE Validation(TRUE, "Date format is valid")
       [] validationType = "business_date" ->
            IF ~DateRegexTest(trimmedInput)
            THEN Validation(FALSE, "Please enter date in DD-MM-YYYY format")
            ELSE LET p == DayMonthYear(trimmedInput)
                     businessDate == NewDate(p.year, p.month - 1, p.day)
                 IN Validation(businessDate <= today.day /\ p.year >= 1900,
                      IF businessDate > today.day
                      THEN "Business date cannot be in the future"
                      ELSE IF p.year < 1900
                           THEN "Please enter a valid business date"
                           ELSE "Business date is valid")
       [] validationType = "gender" ->
            LET isValidGender ==
                  toLowerCase(trimmedInput) \in {"male", "female", "other"}
            IN Validation(isValidGender,
                          IF isValidGender THEN "Gender is valid"
                          ELSE "Please enter male, female, or other")
       [] validationType = "phone" ->
            LET cleanPhone == CountDigits(trimmedInput)
            IN Validation(cleanPhone >= 10 /\ cleanPhone <= 15,
                 IF cleanPhone < 10
                 THEN "Phone number is too short (minimum 10 digits)"
                 ELSE IF cleanPhone > 15
                      THEN "Phone number is too long (maximum 15 digits)"
                      ELSE "Phone number is valid")
       [] validationType \in {"country", "countryCode"} ->
            Validation(CountryRegexTest(toUpperCase(trimmedInput)),
                 IF CountryRegexTest(toUpperCase(trimmedInput))
                 THEN "Country code is valid"
                 ELSE "Please enter a valid 2-3 letter country code (e.g., US, IN, GBR)")
       [] validationType = "city" ->
            Validation(CityRegexTest(trimmedInput) /\ Len(trimmedInput) >= 2,
                 IF CityRegexTest(trimmedInput) THEN "City name is valid"
                 ELSE "Please enter a valid city name (2-50 characters)")
       [] OTHER ->
            Validation(Len(trimmedInput) > 0,
                       IF Len(trimmedInput) = 0 THEN "Please enter a value"
                       ELSE "Input is valid")

\* openaiValidation: the classifier's answer when it has the expected
\* format; when the call fails or the answer is malformed ("down"), the text
\* check
openaiValidation(input, validationType, verdict, today) ==
  CASE verdict = "valid" -> Validation(TRUE, ClassifierMessage)
    [] verdict = "invalid" -> Validation(FALSE, ClassifierMessage)
    [] OTHER -> fastValidation(input, "text", today)

\* validateUserInput of common/api_client.js
ApiValidateUserInput(input, validationType, verdict, today) ==
  IF validationType \in FAST_VALIDATION_TYPES
  THEN fastValidation(input, validationType, today)
  ELSE IF validationType \in OPENAI_VALIDATION_TYPES
  THEN openaiValidation(input, validationType, verdict, today)
  ELSE fastValidation(input, "text", today)

----------------------------------------------------------------------------
(* Validators of the sequential registration engine (part_003)              *)

startsWith(s, k) == Len(s) >= Len(k) /\ SubSeq(s, 1, Len(k)) = k

endsWith(s, k) == Len(s) >= Len(k) /\ SubSeq(s, Len(s) - Len(k) + 1, Len(s)) = k

disposableDomains ==
  {"tempmail.com", "10minutemail.com", "guerrillamail.com", "mailinator.com",
   "yopmail.com", "throwaway.email", "temp-mail.org", "sharklasers.com"}

\* /^[a-zA-Z0-9._%+-]+@[a-zA-Z0-9.-]+\.[a-zA-Z]{2,}$/
ComprehensiveEmailRegexTest(s) ==
  \E at \in 2..Len(s), d \in 1..(Len(s) - 2) :
    /\ CharAt(s, at) = "@" /\ CharAt(s, d) = "." /\ d >= at + 2
    /\ \A i \in 1..(at - 1) : CharAt(s, i) \in EmailLocalChars
    /\ \A i \in (at + 1)..(d - 1) : CharAt(s, i) \in EmailDomainChars
    /\ \A i \in (d + 1)..Len(s) : CharAt(s, i) \in Letters

validateEmailFormat(email) ==
  LET trimmedEmail == trim(email)
      emailParts == split(trimmedEmail, "@")
      localPart == emailParts[1]
      domain == emailParts[2]
      labels == split(domain, ".")
      tld == labels[Len(labels)]
  IN IF trimmedEmail = ""
     THEN Validation(FALSE, "Email address cannot be empty")
     ELSE IF Len(trimmedEmail) > 254
     THEN Validation(FALSE, "Email address is too long (maximum 254 characters)")
     ELSE IF Len(emailParts) # 2
     THEN Validation(FALSE, "Email must contain exactly one @ symbol (e.g., john@example.com)")
     ELSE IF localPart = ""
     THEN Validation(FALSE, "Email must have a local part before @ (e.g., john@example.com)")
     ELSE IF Len(localPart) > 64
     THEN Validation(FALSE, "Local part of email is too long (maximum 64 characters)")
     ELSE IF startsWith(localPart, ".") \/ endsWith(localPart, ".")
     THEN Validation(FALSE, "Local part cannot start or end with a dot")
     ELSE IF EvalIncludes(localPart, "..")
     THEN Validation(FALSE, "Local part cannot contain consecutive dots")
     ELSE IF domain = ""
     THEN Validation(FALSE, "Email must have a domain after @ (e.g., john@example.com)")
     ELSE IF Len(domain) > 253
     THEN Validation(FALSE, "Domain part is too long (maximum 253 characters)")
     ELSE IF startsWith(domain, ".") \/ endsWith(domain, ".")
     THEN Validation(FALSE, "Domain cannot start or end with a dot")
     ELSE IF EvalIncludes(domain, "..")
     THEN Validation(FALSE, "Domain cannot contain consecutive dots")
     ELSE IF ~EvalIncludes(domain, ".")
     THEN Validation(FALSE, "Domain must include a top-level domain (e.g., .com, .org)")
     ELSE IF Len(tld) < 2 \/ Len(tld) > 6
     THEN Validation(FALSE, "Top-level domain must be 2-6 characters long")
     ELSE IF \E i \in 1..Len(localPart) : CharAt(localPart, i) \notin EmailLocalChars
     THEN Validation(FALSE, "Local part contains invalid characters. Use only letters, numbers, dots, underscores, hyphens, and plus signs")
     ELSE IF \E i \in 1..Len(domain) : CharAt(domain, i) \notin EmailDomainChars
     THEN Validation(FALSE, "Domain contains invalid characters. Use only letters, numbers, dots, and hyphens")
     ELSE IF ~ComprehensiveEmailRegexTest(trimmedEmail)
     THEN Validation(FALSE, "Email format is invalid. Please check your email address")
     ELSE IF \E disposable \in disposableDomains :
               EvalIncludes(EvalToLowerCase(domain), disposable)
     THEN Validation(FALSE, "Please use a valid email address from a legitimate email provider")
     ELSE Validation(TRUE, "Email format is valid")

\* validateUserInput of the sequential engine; today is what new Date() gives
SequentialValidateUserInput(input, validationType, today) ==
  CASE validationType = "email" -> validateEmailFormat(input)
    [] validationType = "date" ->
         IF ~DateRegexTest(input)
         THEN Validation(FALSE, "Please enter date in DD-MM-YYYY format (e.g., 20-01-2002)")
         ELSE LET p == DayMonthYear(input)
                  date == NewDate(p.year, p.month - 1, p.day)
                  c == CivilFromDays(date)
                  minAge == AddYears(today.day, -13)
              IN IF c.year # p.year \/ c.month # p.month - 1 \/ c.date # p.day
                 THEN Validation(FALSE, "Please enter a valid date (e.g., 20-01-2002)")
                 ELSE IF date > today.day
                 THEN Validation(FALSE, "Date of birth cannot be in the future")
                 ELSE IF date > minAge
                 THEN Validation(FALSE, "You must be at least 13 years old to register")
                 ELSE Validation(TRUE, "Date format is valid")
    [] validationType = "business_date" ->
         IF ~DateRegexTest(input)
         THEN Validation(FALSE, "Please enter date in DD-MM-YYYY format (e.g., 25-09-2001)")
         ELSE LET p == DayMonthYear(input)
                  businessDate == NewDate(p.year, p.month - 1, p.day)
                  c == CivilFromDays(businessDate)
                  maxAge == AddYears(today.day, -100)
              IN IF c.year # p.year \/ c.month # p.month - 1 \/ c.date # p.day
                 THEN Validation(FALSE, "Please enter a valid incorporation date (e.g., 25-09-2001)")
                 ELSE IF businessDate > today.day
                 THEN Validation(FALSE, "Company incorporation date cannot be in the future")
                 ELSE IF businessDate < maxAge
                         \/ (businessDate = maxAge /\ ~today.midnight)
                 THEN Validation(FALSE, "Company incorporation date seems too old. Please verify the date.")
                 ELSE Validation(TRUE, "Incorporation date format is valid")
    [] validationType = "gender" ->
         Validation(toLowerCase(input) \in {"male", "female", "other"},
                    "Please enter: male, female, or other")
    [] validationType = "phone" ->
         IF CountDigits(input) < 10
         THEN Validation(FALSE, "Phone number must be at least 10 digits long")
         ELSE IF CountDigits(input) > 15
         THEN Validation(FALSE, "Phone number cannot exceed 15 digits")
         ELSE Validation(TRUE, "Please enter a valid phone number (10-15 digits)")
    [] OTHER -> Validation(Len(trim(input)) > 0, "Please enter a valid value")

----------------------------------------------------------------------------
(* The validators alone: each step validates one input of one kind with one *)
(* of the three validateUserInput functions of the repository.              *)

ValidationModules == {"common/validation.js", "common/api_client.js", "part_003"}

\* the kinds of the flow definitions and of the validators
ValidationTypes ==
  {"email", "date", "dob", "business_date", "gender", "phone", "text", "name",
   "countryCode", "country", "postal_code", "state", "city", "number",
   "business_name"}

\* inputs: addresses, dates around the days of Todays, and other values
ValidatorInputs ==
  {"al@x.io", " al@x.io ", "not-an-email", "al@@x.io", "al@mailinator.com",
   "15-03-1990", "29-02-2001", "31-04-1990", "29-02-2000", "1990-03-15",
   "06-11-2016", "06-11-2012", "06-11-2008", "07-11-2008", "06-11-2021",
   "07-11-2026", "06-11-2026", "01-01-2030", "06-11-1876", "01-01-1920",
   "05-11-1926", "06-11-1926", "07-11-1926", "01-01-1899", "15-03-0090",
   "01-03-1928", "28-02-1928", "01-03-2015", "28-02-2010",
   "male", "Other ", "9876543210", "12345", "IN", "Pune", "42", "-1", "", " "}

\* a call to be made: the input, its kind, what the classifier would answer
\* and what new Date() gives
ValidatorCalls ==
  [kind : {"call"}, input : ValidatorInputs, validationType : ValidationTypes,
   verdict : ClassifierVerdicts, today : Todays]

InitValidators ==
  /\ env = "validators"
  /\ redis = EmptyStore
  /\ last \in ValidatorCalls
  /\ memory = InitialMemory

\* the record of a call made by one of the modules
Validated1(module, call, verdict, valid) ==
  [kind |-> "validateUserInput", module |-> module, input |-> call.input,
   validationType |-> call.validationType, verdict |-> verdict,
   today |-> call.today, valid |-> valid]

\* validateUserInput of common/validation.js
ValidateWithClassifier ==
  /\ last.kind = "call"
  /\ last' = Validated1("common/validation.js", last, last.verdict,
                        validateUserInput(last.input, last.validationType,
                                          last.verdict))
  /\ UNCHANGED <<redis, env, memory>>

\* validateUserInput of common/api_client.js
ValidateWithApiClient ==
  /\ last.kind = "call"
  /\ last' = Validated1("common/api_client.js", last, last.verdict,
                        ApiValidateUserInput(last.input, last.validationType,
                                             last.verdict, last.today).valid)
  /\ UNCHANGED <<redis, env, memory>>

\* validateUserInput of the sequential engine, which asks no classifier
ValidateSequentially ==
  /\ last.kind = "call"
  /\ last' = Validated1("part_003", last, "none",
                        SequentialValidateUserInput(last.input,
                                                    last.validationType,
                                                    last.today).valid)
  /\ UNCHANGED <<redis, env, memory>>

NextValidators ==
  ValidateWithClassifier \/ ValidateWithApiClient \/ ValidateSequentially

SpecValidators == InitValidators /\ [][NextValidators]_vars

----------------------------------------------------------------------------
(* C21 *)

\* the call l asked the classifier, and the classifier failed or answered in
\* a malformed way
ClassifierFailed(l) ==
  /\ l.kind = "validateUserInput"
  /\ l.verdict = "down"
  /\ \/ l.module = "common/validation.js"
     \/ l.module = "common/api_client.js"
          /\ l.validationType \in OPENAI_VALIDATION_TYPES

\* C21: when the classifier fails or answers in a malformed way, the verdict
\* of validateUserInput is that of the deterministic check of the same kind:
\* the email-syntax rule for an email, the date rule for a date.
C21_FailureFallsBackToSameKind ==
  ClassifierFailed(last) =>
    /\ last.validationType = "email"
         => last.valid = EmailRegexTest(trim(last.input))
    /\ last.validationType \in {"date", "business_date"}
         => last.valid = DateRegexTest(last.input)

\* the part of C21 that holds: validateUserInput of common/validation.js
\* falls back to fallbackValidation of the same kind
C21_ValidationJsFallsBack ==
  (ClassifierFailed(last) /\ last.module = "common/validation.js") =>
    last.valid = fallbackValidation(last.input, last.validationType)

----------------------------------------------------------------------------
(* C22, C23 *)

IsLeapYear(y) == y % 4 = 0 /\ (y % 100 # 0 \/ y % 400 = 0)

DaysInMonth(y, m) ==
  IF m = 2 THEN (IF IsLeapYear(y) THEN 29 ELSE 28)
  ELSE IF m \in {4, 6, 9, 11} THEN 30 ELSE 31

\* the DD-MM-YYYY string names a day of the calendar
RealCalendarDate(s) ==
  LET p == DayMonthYear(s)
  IN p.month \in 1..12 /\ p.day >= 1 /\ p.day <= DaysInMonth(p.year, p.month)

\* the day number of a real calendar date
DayOf(s) == LET p == DayMonthYear(s) IN DaysFromCivil(p.year, p.month, p.day)

\* the date lies years to the day, or more, before today
AtLeastYearsAgo(s, today, years) ==
  LET p == DayMonthYear(s)
      now == CivilFromDays(today.day)
  IN \/ now.year - p.year > years
     \/ /\ now.year - p.year = years
        /\ \/ p.month < now.month + 1
           \/ p.month = now.month + 1 /\ p.day <= now.date

\* the call l was decided by a deterministic check, not by the classifier
DecidedLocally(l) ==
  /\ l.kind = "validateUserInput"
  /\ \/ l.module = "part_003"
     \/ l.module = "common/validation.js" /\ l.verdict = "down"
     \/ l.module = "common/api_client.js"
          /\ ~(l.validationType \in OPENAI_VALIDATION_TYPES /\ l.verdict # "down")

\* the validation kind of a field of a flow
ValidationOf(steps, field) == steps[StepIndex(steps, field)].validation

\* C22: the check of the date field of the individual registration flow
\* rejects every DD-MM-YYYY string that is not a real calendar date, every
\* future date and every date of birth less than 18 years before today.
C22_DateOfBirthRejected ==
  (/\ DecidedLocally(last)
   /\ last.validationType = ValidationOf(USER_REGISTRATION_FLOW, "date")
   /\ DateRegexTest(last.input)
   /\ \/ ~RealCalendarDate(last.input)
      \/ DayOf(last.input) > last.today.day
      \/ ~AtLeastYearsAgo(last.input, last.today, 18))
    => ~last.valid

\* C23: the check of the business incorporation date (kind business_date)
\* rejects every date more than 100 years before today and every future
\* date, and accepts a real calendar date between 100 years ago and today.
C23_IncorporationDateWindow ==
  (/\ DecidedLocally(last)
   /\ last.validationType =
        ValidationOf(BUSINESS_USER_REGISTRATION_FLOW, "date")
   /\ DateRegexTest(last.input)
   /\ RealCalendarDate(last.input))
    => LET future == DayOf(last.input) > last.today.day
           old == AtLeastYearsAgo(last.input, last.today, 100)
           tooOld == old /\ DayOf(last.input) # AddYears(last.today.day, -100)
       IN /\ (future \/ tooOld) => ~last.valid
          /\ (~future /\ ~old) => last.valid

\* the part of C23 that holds: the validator of the sequential engine keeps
\* the window of 100 years
C23_SequentialEngineWindow ==
  last.kind = "validateUserInput" /\ last.module = "part_003"
    => C23_IncorporationDateWindow

----------------------------------------------------------------------------
(* C24 *)

\* what a confirmation step answers to an input it does not know
ConfirmationPrompt(F) ==
  IF F.name = "fiat_to_crypto" THEN ConfirmQuotePrompt ELSE ConfirmOrEditPrompt

\* confirm, yes, y or edit, in any case and with spaces around
ConfirmationWord(text) ==
  trim(toLowerCase(text)) \in {"confirm", "yes", "y", "edit"}

----------------------------------------------------------------------------
(* C25 *)

\* the seconds a FlowState of each namespace is to live
NamespaceDurations ==
  { [prefix |-> REDIS_KEY_PREFIX, seconds |-> 3600],
    [prefix |-> BUSINESS_REDIS_KEY_PREFIX, seconds |-> 3600],
    [prefix |-> "collect_money", seconds |-> 1800],
    [prefix |-> FIAT_TO_CRYPTO_KEY_PREFIX, seconds |-> 1800],
    [prefix |-> EXCHANGE_RATES_KEY_PREFIX, seconds |-> 1800] }

\* C25: every FlowState in the store was written with the full duration of
\* its namespace as its expiry: 3600 seconds for the two registrations, 1800
\* seconds for collect-money, fiat-to-crypto and exchange-rates; none is
\* stored without an expiry.
C25_FlowStateExpiry ==
  \A N \in NamespaceDurations, u \in Users :
    (N.prefix \o ":" \o u) \in DOMAIN redis
      => redis[N.prefix \o ":" \o u].ex = N.seconds

\* a message was handled by the collect-money flow, which wrote its FlowState
\* again, at step 1, with 1800 seconds to live
C25_Witness ==
  /\ Inbound(last)
  /\ CollectMoneyKey(last.from) \in DOMAIN redis
  /\ redis[CollectMoneyKey(last.from)].val.currentStep = "1"
  /\ redis[CollectMoneyKey(last.from)].ex = 1800

----------------------------------------------------------------------------
(* The store service (part_002) and the whole of POST /webhook.  Each call  *)
(* of the store may fail (up = FALSE); the service then turns to the        *)
(* storage it keeps in memory, for good.                                    *)

Stored(r, m) == [redis |-> r, memory |-> m]

\* markMessageProcessed
markMessageProcessed(r, m, messageId, up) ==
  IF m.useFallbackStorage \/ ~up
  THEN Stored(r, [m EXCEPT !.useFallbackStorage = TRUE,
                           !.processedMessages = @ \cup {messageId}])
  ELSE Stored(setEx(r, "msg:" \o messageId, 3600, "1"), m)

\* isMessageProcessed
isMessageProcessed(r, m, messageId, up) ==
  IF m.useFallbackStorage \/ ~up THEN messageId \in m.processedMessages
  ELSE ("msg:" \o messageId) \in DOMAIN r

\* what the messaging API may do with a send
SendOutcomes ==
  { "sent",             \* 2xx: the result carries the id of the sent message
    "not_whitelisted",  \* non-2xx with error code 131030
    "api_error",        \* another non-2xx answer
    "network_error",    \* fetch throws
    "missing_config" }  \* no access token or phone number id

\* a send result test that takes { success: false } for a success
sendWhatsAppMessageAlwaysResult(outcome) ==
  CASE outcome \in {"sent", "not_whitelisted"} -> "result"
    [] OTHER -> "throws"

\* sendWhatsAppMessage in text mode: the result, { success: false }, or an
\* exception
sendWhatsAppMessage(outcome) ==
  CASE outcome = "sent" -> "result"
    [] outcome = "not_whitelisted" -> "success_false"
    [] OTHER -> "throws"

MessageIds == {"wamid.1", "wamid.2"}

\* Conversations over the webhook: a fiat-to-crypto quote
WebhookEnv ==
  [QuoteEnv EXCEPT !.texts = {"fiat to crypto", FiatBulk, "confirm", "maybe"},
                   !.outcomes = {"created", "network_error"},
                   !.moneyAnswers = {"GENERAL_QUERY"},
                   !.ratesAnswers = {"OTHER"},
                   !.currencyAnswers = {"NONE"}]

InitWebhook ==
  /\ env = "webhook"
  /\ redis = WebhookEnv.store
  /\ last = [kind |-> "start"]
  /\ memory = InitialMemory

\* POST /webhook with a message: the text, a document (downloaded when the
\* download succeeds) or a message of another type, which is handled as the
\* empty text; the reply is sent, and the message id is marked when the send
\* gave a result that does not say success: false
PostWebhook ==
  \E from \in WebhookEnv.users, messageId \in MessageIds,
     type \in {"text", "document", "other"},
     body \in WebhookEnv.texts \cup WebhookEnv.documents,
     downloaded \in BOOLEAN, send \in SendOutcomes, up \in BOOLEAN :
    /\ type = "text" => body \in WebhookEnv.texts /\ ~downloaded
    /\ type = "document" => body \in WebhookEnv.documents
    /\ type = "other" => body = "invoice.pdf" /\ ~downloaded
    /\ LET messageText == IF type = "other" THEN "" ELSE body
           isDocument == type = "document"
       IN \E done \in processMessage(
                        IF downloaded
                        THEN setEx(redis, "pdf_" \o from, 300, "base64")
                        ELSE redis,
                        from, messageText, isDocument, WebhookEnv) :
            LET sendResult == sendWhatsAppMessage(send)
                marked == IF sendResult = "result"
                          THEN markMessageProcessed(done.redis, memory,
                                                    messageId, up)
                          ELSE Stored(done.redis, memory)
            IN /\ redis' = marked.redis
               /\ memory' = marked.memory
               /\ last' = [kind |-> "webhook", type |-> type, from |-> from,
                           text |-> messageText, messageId |-> messageId,
                           section |-> done.section, reply |-> done.reply,
                           remote |-> done.remote, send |-> send,
                           status |-> IF sendResult = "throws" THEN 500
                                      ELSE 200]
    /\ UNCHANGED env

\* a key of the store reaches the end of its time to live
ExpireKey ==
  \E key \in DOMAIN redis :
    /\ redis' = del(redis, key)
    /\ last' = [kind |-> "expire", key |-> key]
    /\ UNCHANGED <<env, memory>>

NextWebhook == PostWebhook \/ ExpireKey

SpecWebhook == InitWebhook /\ [][NextWebhook]_vars

----------------------------------------------------------------------------
(* C26 *)

\* the message id is marked as processed, in the store or in memory
Marked(r, m, messageId) ==
  ("msg:" \o messageId) \in DOMAIN r \/ messageId \in m.processedMessages

\* C26: a message id becomes marked as processed only in the handling of that
\* message and only when the send of its reply succeeded; when the send fails
\* or throws no message id becomes marked, so an unmarked id stays unmarked.
C26_MarkedOnlyAfterSend ==
  [][\A messageId \in MessageIds :
       /\ (Marked(redis', memory', messageId) /\ ~Marked(redis, memory, messageId))
            => /\ last'.kind = "webhook" /\ last'.messageId = messageId
               /\ last'.send = "sent" /\ last'.status = 200
       /\ (last'.kind = "webhook" /\ last'.send # "sent")
            => (Marked(redis', memory', messageId)
                  <=> Marked(redis, memory, messageId))]_vars

\* the reply to a message was sent and its id is marked, while the id of
\* another message is not
C26_Witness ==
  /\ last.kind = "webhook" /\ last.send = "sent"
  /\ Marked(redis, memory, last.messageId)
  /\ \E other \in MessageIds : ~Marked(redis, memory, other)

----------------------------------------------------------------------------
(* Conversation history (part_002)                                          *)

\* fallbackStorage.conversations.get(userId) || []
FallbackHistory(m, userId) ==
  IF userId \in DOMAIN m.conversations THEN m.conversations[userId] ELSE <<>>

\* fallbackStorage.conversations.set(userId, history)
FallbackSet(m, userId, history) ==
  [m EXCEPT !.conversations =
     [u \in DOMAIN m.conversations \cup {userId} |->
        IF u = userId THEN history ELSE m.conversations[u]]]

\* getConversationHistory: the history and the memory it leaves
getConversationHistory(r, m, userId, up) ==
  IF m.useFallbackStorage
  THEN [history |-> FallbackHistory(m, userId), memory |-> m]
  ELSE IF up
  THEN [history |-> IF ("conv:" \o userId) \in DOMAIN r
                    THEN r["conv:" \o userId].val ELSE <<>>,
        memory |-> m]
  ELSE [history |-> FallbackHistory(m, userId),
        memory |-> [m EXCEPT !.useFallbackStorage = TRUE]]

\* setConversationHistory
setConversationHistory(r, m, userId, history, up) ==
  IF m.useFallbackStorage \/ ~up
  THEN Stored(r, FallbackSet([m EXCEPT !.useFallbackStorage = TRUE],
                             userId, history))
  ELSE Stored(setEx(r, "conv:" \o userId, 86400, history), m)

\* history.slice(-n)
SliceLast(history, n) ==
  IF Len(history) > n
  THEN SubSeq(history, Len(history) - n + 1, Len(history)) ELSE history

\* an addToConversationHistory that keeps the first 10 messages
addToConversationHistoryKeepingFirst(r, m, userId, message, getUp, setUp) ==
  LET got == getConversationHistory(r, m, userId, getUp)
      pushed == Append(got.history, message)
      history == IF Len(pushed) > 10 THEN SubSeq(pushed, 1, 10) ELSE pushed
  IN IF got.memory.useFallbackStorage
     THEN Stored(r, FallbackSet(got.memory, userId, history))
     ELSE setConversationHistory(r, got.memory, userId, history, setUp)

\* addToConversationHistory: getUp and setUp tell whether the read and the
\* write of the store succeed
addToConversationHistory(r, m, userId, message, getUp, setUp) ==
  LET got == getConversationHistory(r, m, userId, getUp)
      pushed == Append(got.history, message)
      history == IF Len(pushed) > 10 THEN SliceLast(pushed, 10) ELSE pushed
  IN IF got.memory.useFallbackStorage
     THEN Stored(r, FallbackSet(got.memory, userId, history))
     ELSE setConversationHistory(r, got.memory, userId, history, setUp)

\* the calls made in a run
MaxAppends == 12

HistoryRoles == {"user", "assistant"}

\* last counts the messages appended so far; the content of a message is its
\* number
InitHistory ==
  /\ env = "history"
  /\ redis = EmptyStore
  /\ last = [kind |-> "start", count |-> 0]
  /\ memory = InitialMemory

AddToConversationHistory ==
  \E userId \in Users, role \in HistoryRoles, getUp \in BOOLEAN,
     setUp \in BOOLEAN :
    /\ last.count < MaxAppends
    /\ LET message == [role |-> role, content |-> last.count + 1]
           added == addToConversationHistory(redis, memory, userId, message,
                                             getUp, setUp)
       IN /\ redis' = added.redis
          /\ memory' = added.memory
          /\ last' = [kind |-> "addToConversationHistory", userId |-> userId,
                      count |-> last.count + 1]
    /\ UNCHANGED env

\* redisClient.on('error'): a refused connection turns the service to the
\* storage in memory
ConnectionRefused ==
  /\ ~memory.useFallbackStorage
  /\ memory' = [memory EXCEPT !.useFallbackStorage = TRUE]
  /\ last' = [kind |-> "error", count |-> last.count]
  /\ UNCHANGED <<redis, env>>

NextHistory == AddToConversationHistory \/ ConnectionRefused

SpecHistory == InitHistory /\ [][NextHistory]_vars

----------------------------------------------------------------------------
(* C27 *)

\* the history of the user as the service reads it
StoredHistory(r, m, userId) == getConversationHistory(r, m, userId, TRUE).history

Min(a, b) == IF a < b THEN a ELSE b

\* C27: after any sequence of addToConversationHistory calls the stored
\* history of the user has at most 10 entries, and these are the messages
\* appended last, in the order of their appending; as long as the store has
\* not failed they are all of the last 10.
C27_HistoryIsLastTen ==
  \A userId \in Users :
    LET history == StoredHistory(redis, memory, userId)
    IN /\ Len(history) <= 10
       /\ \A i \in 1..Len(history) :
            history[i].content = last.count - Len(history) + i
       /\ last.kind = "addToConversationHistory" => Len(history) >= 1
       /\ ~memory.useFallbackStorage => Len(history) = Min(10, last.count)

\* twelve messages were appended and the history holds the last ten of them
C27_Witness ==
  /\ last.kind = "addToConversationHistory" /\ last.count = MaxAppends
  /\ Len(StoredHistory(redis, memory, last.userId)) = 10
  /\ StoredHistory(redis, memory, last.userId)[1].content = 3

\* ---------------------------------------------------------------------
\* The in-flow checks of the router while the store cannot be read

\* what one in-flow check answers when redisClient.get rejects: the getters
\* of redis_utils.js catch the error and return null, so the check is false;
\* getCollectMoneyState has no catch, so isUserInCollectMoneyFlow rejects
getCreationStateStoreDown == "null"

getFiatToCryptoStateStoreDown == "null"

getCollectMoneyStateStoreDown == "throws"

FlowCheckStoreDown(stateRead) ==
  IF stateRead = "throws" THEN "throws" ELSE "not_in_flow"

\* the checks of processMessage in the order in which it awaits them
RouterChecksStoreDown ==
  << [flow |-> "fiat_to_crypto",
      check |-> FlowCheckStoreDown(getFiatToCryptoStateStoreDown)],
     [flow |-> "user_registration",
      check |-> FlowCheckStoreDown(getCreationStateStoreDown)],
     [flow |-> "business_user_registration",
      check |-> FlowCheckStoreDown(getCreationStateStoreDown)],
     [flow |-> "collect_money",
      check |-> FlowCheckStoreDown(getCollectMoneyStateStoreDown)] >>

ProcessingTrouble ==
  "I'm sorry, I'm having trouble processing your message right now. Please try again later."

\* processMessage while every read of the store rejects: the checks are
\* awaited in order, the first one that rejects lands in the catch of
\* processMessage, which answers with the apology; nothing is written
processMessageStoreDown(r) ==
  LET thrown == {i \in 1..Len(RouterChecksStoreDown) :
                   RouterChecksStoreDown[i].check = "throws"}
      first == CHOOSE i \in thrown : \A j \in thrown : i <= j
      reached == IF thrown = {} THEN Len(RouterChecksStoreDown) ELSE first
  IN [redis |-> r,
      checks |-> [i \in 1..reached |-> RouterChecksStoreDown[i]],
      section |-> IF thrown = {} THEN "lower_rules" ELSE "error",
      reply |-> IF thrown = {} THEN "" ELSE ProcessingTrouble]

\* POST /webhook with a text message while the store is unreachable
ReceiveTextStoreDown ==
  \E from \in Envs[env].users, messageText \in Envs[env].texts :
    LET done == processMessageStoreDown(redis)
    IN /\ redis' = done.redis
       /\ last' = [kind |-> "store_down", from |-> from, text |-> messageText,
                   checks |-> done.checks, section |-> done.section,
                   reply |-> done.reply]
       /\ UNCHANGED <<env, memory>>

NextStoreDown == Next \/ ReceiveTextStoreDown

SpecStoreDown == InitQuote /\ [][NextStoreDown]_vars

\* C28: when the store cannot be read, every in-flow check of the router,
\* the collect-money one included, answers "not in flow" and the message
\* goes on to the lower-priority rules; the handling is never aborted
C28_StoreFailureMeansNotInFlow ==
  last.kind = "store_down" =>
    /\ \A i \in DOMAIN last.checks : last.checks[i].check = "not_in_flow"
    /\ last.section # "error"
    /\ last.reply # ProcessingTrouble

\* ---------------------------------------------------------------------
\* The handling of a message, one external call at a time

\* the time limit that the code passes with each external request: none of
\* the fetch calls carries a signal or a timeout option
ExternalCallTimeout(call) ==
  CASE call = "sendWhatsAppMessage" -> "none"
    [] call = "transfiApi" -> "none"

\* the requests that the handling of a message awaits: the request to the
\* financial API (makeApiCall, getLiveExchangeRates, createDepositOrder and
\* their like) when the flow step made one, and the send of the reply
AwaitedCalls(done) ==
  {"sendWhatsAppMessage"}
    \cup (IF done.remote = "none" THEN {} ELSE {"transfiApi"})

\* POST /webhook with a message whose handling has issued an external request
\* and awaits the answer
AwaitExternalCall ==
  /\ last.kind \notin {"awaiting", "responded"}
  /\ \E from \in WebhookEnv.users, messageId \in MessageIds,
        type \in {"text", "document", "other"},
        body \in WebhookEnv.texts \cup WebhookEnv.documents,
        downloaded \in BOOLEAN :
       /\ type = "text" => body \in WebhookEnv.texts /\ ~downloaded
       /\ type = "document" => body \in WebhookEnv.documents
       /\ type = "other" => body = "invoice.pdf" /\ ~downloaded
       /\ \E done \in processMessage(
                        IF downloaded
                        THEN setEx(redis, "pdf_" \o from, 300, "base64")
                        ELSE redis,
                        from, IF type = "other" THEN "" ELSE body,
                        type = "document", WebhookEnv) :
            \E call \in AwaitedCalls(done) :
              last' = [kind |-> "awaiting", type |-> type, from |-> from,
                       body |-> body, messageId |-> messageId,
                       downloaded |-> downloaded, call |-> call,
                       timeout |-> ExternalCallTimeout(call)]
  /\ UNCHANGED <<redis, env, memory>>

\* the remote collaborator answers the request
RemoteResponds ==
  /\ last.kind = "awaiting"
  /\ last' = [last EXCEPT !.kind = "responded"]
  /\ UNCHANGED <<redis, env, memory>>

\* the handler resumes after the awaited request and finishes the handling:
\* the reply is sent, the message id is marked and the webhook is answered
ResumeHandling ==
  /\ last.kind = "responded"
  /\ \E send \in SendOutcomes, up \in BOOLEAN :
       LET messageText == IF last.type = "other" THEN "" ELSE last.body
       IN \E done \in processMessage(
                        IF last.downloaded
                        THEN setEx(redis, "pdf_" \o last.from, 300, "base64")
                        ELSE redis,
                        last.from, messageText, last.type = "document",
                        WebhookEnv) :
            LET sendResult == sendWhatsAppMessage(send)
                marked == IF sendResult = "result"
                          THEN markMessageProcessed(done.redis, memory,
                                                    last.messageId, up)
                          ELSE Stored(done.redis, memory)
            IN /\ redis' = marked.redis
               /\ memory' = marked.memory
               /\ last' = [kind |-> "webhook", type |-> last.type,
                           from |-> last.from, text |-> messageText,
                           messageId |-> last.messageId,
                           section |-> done.section, reply |-> done.reply,
                           remote |-> done.remote, send |-> send,
                           status |-> IF sendResult = "throws" THEN 500
                                      ELSE 200]
  /\ UNCHANGED env

\* a key of the store reaches the end of its time to live between two
\* handlings
ExpireBetweenHandlings ==
  /\ last.kind \notin {"awaiting", "responded"}
  /\ ExpireKey

NextAwait ==
  AwaitExternalCall \/ RemoteResponds \/ ResumeHandling
    \/ ExpireBetweenHandlings

\* the event loop resumes a handler whose awaited request has settled; nothing
\* obliges a remote collaborator to answer
SpecAwait ==
  InitWebhook /\ [][NextAwait]_vars /\ WF_vars(ResumeHandling)

\* C29: the handling of a message always ends with a reply, also when the
\* remote collaborator never answers: a handling that awaits an external
\* request eventually finishes
C29_HandlingAlwaysTerminates ==
  (last.kind = "awaiting") ~> (last.kind = "webhook")

\* ---------------------------------------------------------------------
\* The sequential registration engine: one field per message

SEQUENTIAL_USER_REGISTRATION_FLOW ==
  << [field |-> "email", validation |-> "email",
      question |-> "Please enter your email address:"],
     [field |-> "firstName", validation |-> "text",
      question |-> "Please enter your first name:"],
     [field |-> "lastName", validation |-> "text",
      question |-> "Please enter your last name:"],
     [field |-> "date", validation |-> "date",
      question |-> "Please enter your date of birth (DD-MM-YYYY):"],
     [field |-> "country", validation |-> "text",
      question |-> "Please enter your country of citizenship:"],
     [field |-> "gender", validation |-> "gender",
      question |-> "Please enter your gender (male/female/other):"],
     [field |-> "phone", validation |-> "phone",
      question |-> "Please enter your phone number:"],
     [field |-> "address", validation |-> "text",
      question |-> "Please enter your street address:"],
     [field |-> "city", validation |-> "text",
      question |-> "Please enter your city:"],
     [field |-> "postalCode", validation |-> "text",
      question |-> "Please enter your postal code:"],
     [field |-> "state", validation |-> "text",
      question |-> "Please enter your state/province:"] >>

SequentialWelcome ==
  "Welcome! I'll help you create your account. Let me collect some information from you."

\* the answer to the creation request
SequentialCreateUserAccount(outcome) ==
  CASE outcome = "created" -> "Congratulations! Your account has been created successfully!"
    [] outcome = "api_error" -> "Sorry, there was an error creating your account: Unknown error"
    [] OTHER -> "Sorry, there was an error creating your account. Please try again later or contact support."

\* currentStep counts from 0; the fields of collectedData.address are kept
\* under address.street, address.city, address.postalCode and address.state
SequentialStartUserRegistration(r, whatsappNumber) ==
  Handled(setUserCreationState(r, whatsappNumber,
            [type |-> "user_registration", currentStep |-> 0,
             collectedData |-> EmptyData, whatsappNumber |-> whatsappNumber]),
          SequentialWelcome)

\* the assignment of a validated input to collectedData
SequentialStore(collectedData, field, userInput) ==
  IF field = "address"
  THEN Assign([f \in DOMAIN collectedData \ {"address.street", "address.city",
                 "address.postalCode", "address.state"} |-> collectedData[f]],
              [f \in {"address.street", "address.city", "address.postalCode",
                      "address.state"} |->
                 IF f = "address.street" THEN userInput ELSE ""])
  ELSE IF field \in {"city", "postalCode", "state"}
  THEN Assign(collectedData, [f \in {"address." \o field} |-> userInput])
  ELSE Assign(collectedData, [f \in {field} |-> userInput])

\* a step that stores the input and moves on without validating it
SequentialProcessUserRegistrationStepUnvalidated(r, whatsappNumber, userInput, today, outcome) ==
  LET state == getUserCreationState(r, whatsappNumber)
  IN IF state = NullState \/ state.type # "user_registration"
     THEN Handled(r, NoReply)
     ELSE
       LET currentStep == SEQUENTIAL_USER_REGISTRATION_FLOW[state.currentStep + 1]
           next == [state EXCEPT
                      !.collectedData =
                         SequentialStore(state.collectedData,
                                         currentStep.field, userInput),
                      !.currentStep = state.currentStep + 1]
       IN IF next.currentStep >= Len(SEQUENTIAL_USER_REGISTRATION_FLOW)
          THEN Handled(setUserCreationState(r, whatsappNumber, NullState),
                       SequentialCreateUserAccount(outcome))
          ELSE Handled(setUserCreationState(r, whatsappNumber, next),
                       SEQUENTIAL_USER_REGISTRATION_FLOW[next.currentStep + 1].question)

SequentialProcessUserRegistrationStep(r, whatsappNumber, userInput, today, outcome) ==
  LET state == getUserCreationState(r, whatsappNumber)
  IN IF state = NullState \/ state.type # "user_registration"
     THEN Handled(r, NoReply)
     ELSE IF state.currentStep + 1 \notin DOMAIN SEQUENTIAL_USER_REGISTRATION_FLOW
     THEN Handled(r, NoReply)
     ELSE
       LET currentStep == SEQUENTIAL_USER_REGISTRATION_FLOW[state.currentStep + 1]
           isValid == SequentialValidateUserInput(userInput,
                                                  currentStep.validation, today)
           next == [state EXCEPT
                      !.collectedData =
                         SequentialStore(state.collectedData,
                                         currentStep.field, userInput),
                      !.currentStep = state.currentStep + 1]
       IN IF ~isValid.valid
          THEN Handled(r, "Invalid input. " \o isValid.message \o "\n\n"
                            \o currentStep.question)
          ELSE IF next.currentStep >= Len(SEQUENTIAL_USER_REGISTRATION_FLOW)
          THEN Handled(setUserCreationState(r, whatsappNumber, NullState),
                       SequentialCreateUserAccount(outcome))
          ELSE Handled(setUserCreationState(r, whatsappNumber, next),
                       SEQUENTIAL_USER_REGISTRATION_FLOW[next.currentStep + 1].question)

\* what the users of the sequential engine type
SequentialInputs == {"al@x.io", "15-03-1990", "male", "4155550100", " "}

InitSequential ==
  /\ env = "sequential"
  /\ redis = EmptyStore
  /\ last = [kind |-> "start"]
  /\ memory = InitialMemory

\* the user asks to register
StartSequentialRegistration ==
  \E from \in Users :
    /\ redis' = SequentialStartUserRegistration(redis, from).redis
    /\ last' = [kind |-> "sequential_start", from |-> from]
    /\ UNCHANGED <<env, memory>>

\* a message of a user, handed to the engine
SequentialStep ==
  \E from \in Users, userInput \in SequentialInputs,
     today \in Todays, outcome \in {"created", "api_error", "network_error"} :
    LET state == getUserCreationState(redis, from)
        done == SequentialProcessUserRegistrationStep(redis, from, userInput,
                                                      today, outcome)
    IN /\ state # NullState
       /\ redis' = done.redis
       /\ last' = [kind |-> "sequential_step", from |-> from,
                   step |-> state.currentStep,
                   valid |-> SequentialValidateUserInput(
                               userInput,
                               SEQUENTIAL_USER_REGISTRATION_FLOW[
                                 state.currentStep + 1].validation,
                               today).valid,
                   reply |-> done.reply]
       /\ UNCHANGED <<env, memory>>

NextSequential == StartSequentialRegistration \/ SequentialStep \/ ExpireKey

SpecSequential == InitSequential /\ [][NextSequential]_vars

\* the FlowState of the sequential engine that the store holds for the user
SequentialState(r) == getUserCreationState(r, TestWhatsappNumber)

\* C30: in the sequential engine an input that fails the validation of the
\* current field is answered with "Invalid input.", the explanation and the
\* prompt of the same field, and leaves the stored FlowState as it was;
\* currentStep changes only on a valid input, and then by exactly one (the
\* valid input of the last field ends the registration).
C30_InvalidInputKeepsStep ==
  [][last'.kind = "sequential_step" =>
       LET before == SequentialState(redis)
           after == SequentialState(redis')
           current == SEQUENTIAL_USER_REGISTRATION_FLOW[before.currentStep + 1]
       IN /\ ~last'.valid =>
               /\ redis' = redis
               /\ startsWith(last'.reply, "Invalid input. ")
               /\ endsWith(last'.reply, "\n\n" \o current.question)
               /\ Len(last'.reply)
                    > Len("Invalid input. ") + Len("\n\n" \o current.question)
          /\ last'.valid =>
               IF before.currentStep + 1 < Len(SEQUENTIAL_USER_REGISTRATION_FLOW)
               THEN /\ after # NullState
                    /\ after.currentStep = before.currentStep + 1
               ELSE after = NullState
          /\ (after # NullState /\ after.currentStep # before.currentStep) =>
               last'.valid /\ after.currentStep = before.currentStep + 1]_vars

\* the date of birth was refused: the user is still asked for it, with the
\* three earlier fields collected
C30_Witness ==
  /\ last.kind = "sequential_step" /\ ~last.valid /\ last.step = 3
  /\ SequentialState(redis) # NullState
  /\ SequentialState(redis).currentStep = 3
  /\ DOMAIN SequentialState(redis).collectedData = {"email", "firstName", "lastName"}

----------------------------------------------------------------------------
(* C31 *)

\* C31: a delivery whose message id is already marked as processed is
\* skipped: when the message that was just handled and marked is delivered
\* again, its handling changes neither the store nor the memory of the
\* process and makes no remote call.
C31_ProcessedDeliverySkipped ==
  [][\A messageId \in MessageIds :
       (/\ Marked(redis, memory, messageId)
        /\ last.kind = "webhook" /\ last.messageId = messageId
        /\ last'.kind = "webhook" /\ last'.messageId = messageId
        /\ last'.from = last.from /\ last'.type = last.type
        /\ last'.text = last.text)
         => /\ redis' = redis
            /\ memory' = memory
            /\ last'.remote = "none"]_vars

----------------------------------------------------------------------------
(* Two handlings of a confirm message of one user, interleaved at their     *)
(* awaits: the read of the FlowState, the creation call with the writes     *)
(* that follow its answer, and the clearing of the FlowState.               *)

Handlers == {1, 2}

\* a handler is at one of the awaits of handleConfirmationStep
InFlight(l) ==
  l.kind = "confirming" /\ \E h \in Handlers : l.pc[h] \in {"read", "called"}

\* the position of handler h, idle when no confirm is being handled
PcOf(l, h) == IF l.kind = "confirming" THEN l.pc[h] ELSE "idle"

\* a confirm message arrives and its handler reads the FlowState: the router
\* finds the user in the individual registration, at confirmation
ConfirmArrives(h) ==
  \E from \in Envs[env].users, userInput \in {"confirm", "YES", " y "} :
    LET state == getUserCreationState(redis, from)
        fresh == ~InFlight(last)
    IN /\ PcOf(last, h) \in {"idle", "done"}
       /\ InFlight(last) => last.from = from
       /\ ~isUserInFiatToCryptoFlow(redis, from)
       /\ isUserInRegistration(redis, from)
       /\ state.currentStep = "confirmation"
       /\ last' = [kind |-> "confirming", from |-> from,
                   pc |-> [g \in Handlers |->
                             IF g = h THEN "read"
                             ELSE IF fresh THEN "idle" ELSE last.pc[g]],
                   state |-> [g \in Handlers |->
                                IF g = h \/ fresh THEN state ELSE last.state[g]],
                   calls |-> IF fresh THEN 0 ELSE last.calls]
       /\ UNCHANGED <<redis, env, memory>>

\* the handler calls createUserAccount with the data it read; the record and
\* the user_context marker are written when the remote accepts
ConfirmCreatesAccount(h) ==
  /\ last.kind = "confirming" /\ last.pc[h] = "read"
  /\ \E outcome \in Envs[env].outcomes :
       redis' = createUserAccount(
                  redis,
                  WithWhatsApp(last.state[h].collectedData, last.from),
                  outcome).redis
  /\ last' = [last EXCEPT !.pc[h] = "called", !.calls = last.calls + 1]
  /\ UNCHANGED <<env, memory>>

\* the handler clears the FlowState and returns the result
ConfirmClearsState(h) ==
  /\ last.kind = "confirming" /\ last.pc[h] = "called"
  /\ redis' = setUserCreationState(redis, last.from, NullState)
  /\ last' = [last EXCEPT !.pc[h] = "done"]
  /\ UNCHANGED <<env, memory>>

\* the operations of the application while no confirm is being handled
HandledAlone == ~InFlight(last) /\ Next

NextConcurrent ==
  \/ HandledAlone
  \/ \E h \in Handlers :
       ConfirmArrives(h) \/ ConfirmCreatesAccount(h) \/ ConfirmClearsState(h)

SpecConcurrent == InitRegistration /\ [][NextConcurrent]_vars

\* C32: when two confirm messages of one user are handled concurrently
\* while the registration FlowState is at confirmation, the account-creation
\* call is made at most once for that FlowState.
C32_CreationCalledAtMostOnce ==
  last.kind = "confirming" => last.calls <= 1

----------------------------------------------------------------------------
(* C33 *)

\* the collect-money engine answers some input of the user at the stored step
CollectMoneyAcceptsSomeInput(r, whatsappNumber) ==
  \E isDocument \in BOOLEAN,
     userInput \in MoneyEnv.texts \cup MoneyEnv.documents,
     outcome \in MoneyEnv.outcomes :
    processCollectMoneyStep(r, whatsappNumber, userInput, isDocument,
                            outcome).reply # NoReply

\* C33: from every reachable collect-money FlowState there is an input that
\* the collect-money engine accepts; in particular a failed creation of the
\* deposit order leaves no FlowState at a step for which
\* processCollectMoneyStep answers neither texts nor documents.
C33_CollectMoneyNeverStuck ==
  \A whatsappNumber \in Users :
    isUserInCollectMoneyFlow(redis, whatsappNumber)
      => CollectMoneyAcceptsSomeInput(redis, whatsappNumber)

----------------------------------------------------------------------------
(* C34 *)

\* the registration FlowState is at step 0 and holds no collected data
AtStepZeroEmpty(state) ==
  state # NullState /\ state.currentStep = "0" /\ state.collectedData = EmptyData

\* C34: a user with an active individual or business registration who sends
\* reset ends with that registration FlowState at step 0 with empty
\* collectedData, also when the FlowState was at confirmation.
C34_ResetRestartsRegistration ==
  [][(last'.kind = "text" /\ last'.text = "reset") =>
       /\ isUserInRegistration(redis, last'.from)
            => AtStepZeroEmpty(getUserCreationState(redis', last'.from))
       /\ isUserInBusinessRegistration(redis, last'.from)
            => AtStepZeroEmpty(getBusinessUserCreationState(redis', last'.from))]_vars

----------------------------------------------------------------------------
(* Submissions whose values hold an exit keyword inside a longer word *)

\* a complete individual submission of a user whose first name is Noah
IndividualBulkNoah ==
  "Noah\nRoe\nal@x.io\n15-03-1990\nIN\nmale\n9876543210\n1 Elm St\nPune\n400001\nMH"

\* a complete business submission of a company whose name holds "end"
BusinessBulkBrenda ==
  "ops@acme.io\nBrenda Ltd\nIndia\nREG123\n15-03-2020\n9876543210\n2 Oak Rd\nPune\n400001\nMH"

ExitWordsEnv ==
  [RegistrationEnv EXCEPT
     !.texts = {IndividualBulk, IndividualBulkNoah, BusinessBulk,
                BusinessBulkBrenda, "help", "register", "Individual",
                "business", "confirm", "status"},
     !.verdicts = {AllDown},
     !.outcomes = {"created", "network_error"}]

InitExitWords ==
  /\ env = "exit_words"
  /\ redis = ExitWordsEnv.store
  /\ last = [kind |-> "start"]
  /\ memory = InitialMemory

\* POST /webhook with a text message of these conversations
ReceiveExitWordsText ==
  \E from \in ExitWordsEnv.users, messageText \in ExitWordsEnv.texts :
    \E done \in processMessage(redis, from, messageText, FALSE, ExitWordsEnv) :
       /\ redis' = done.redis
       /\ last' = [kind |-> "text", from |-> from, text |-> messageText,
                   section |-> done.section, reply |-> done.reply,
                   remote |-> done.remote]
       /\ UNCHANGED <<env, memory>>

NextExitWords == ReceiveExitWordsText \/ TestRegistration \/ ExpireKey

SpecExitWords == InitExitWords /\ [][NextExitWords]_vars

\* C35: exit handling is triggered only by a message that is an exit
\* keyword: a complete, valid submission with a value that merely holds a
\* keyword inside a longer word (Noah, Brenda) is processed by the flow engine
\* and reaches confirmation, and the message help does not end an active flow.
C35_ExitOnlyOnKeyword ==
  [][last'.kind = "text" =>
       /\ (/\ last'.text = IndividualBulkNoah
           /\ AtStep(redis, Individual, last'.from, "0")
           /\ ~isUserInFiatToCryptoFlow(redis, last'.from))
            => /\ last'.section \notin FlowExitSections
               /\ AtStep(redis', Individual, last'.from, "confirmation")
       /\ (/\ last'.text = BusinessBulkBrenda
           /\ AtStep(redis, Business, last'.from, "0")
           /\ ~isUserInFiatToCryptoFlow(redis, last'.from)
           /\ ~isUserInRegistration(redis, last'.from))
            => /\ last'.section \notin FlowExitSections
               /\ AtStep(redis', Business, last'.from, "confirmation")
       /\ (last'.text = "help" /\ InActiveFlow(redis, last'.from))
            => /\ last'.section \notin FlowExitSections
               /\ InActiveFlow(redis', last'.from)]_vars

----------------------------------------------------------------------------
(* Verification by email, with two senders and two registered accounts *)

OtherWhatsappNumber == "1987654321"

\* the records that the registrations of the two senders left: al@x.io was
\* registered from TestWhatsappNumber, arnold@x.io from OtherWhatsappNumber
TwoRecordsStore ==
  storeUserData(RegisteredStore, "arnold@x.io",
    [firstName |-> "Arnold", lastName |-> "Poe", email |-> "arnold@x.io",
     date |-> "15-03-1990", country |-> "IN", gender |-> "male",
     phone |-> "9876543211",
     address |-> [street |-> "2 Oak Rd", city |-> "Pune",
                  postalCode |-> "400001", state |-> "MH"],
     whatsappNumber |-> OtherWhatsappNumber,
     userId |-> "remote-id-2", userType |-> "individual"])

VerifyEnv ==
  [MoneyEnv EXCEPT
     !.users = {TestWhatsappNumber, OtherWhatsappNumber},
     !.texts = {"I want to collect money", "al@x.io", "arnold@x.io", "exit"},
     !.store = TwoRecordsStore,
     !.outcomes = {"created"},
     !.moneyAnswers = {"unexpected"}]

InitVerify ==
  /\ env = "verify"
  /\ redis = VerifyEnv.store
  /\ last = [kind |-> "start"]
  /\ memory = InitialMemory

\* POST /webhook with a text message of one of the two senders
ReceiveVerifyText ==
  \E from \in VerifyEnv.users, messageText \in VerifyEnv.texts :
    \E done \in processMessage(redis, from, messageText, FALSE, VerifyEnv) :
       /\ redis' = done.redis
       /\ last' = [kind |-> "text", from |-> from, text |-> messageText,
                   section |-> done.section, reply |-> done.reply,
                   remote |-> done.remote]
       /\ UNCHANGED <<env, memory>>

\* a marker or a FlowState reaches the end of its time to live; the records
\* of the accounts stay
ExpireMarker ==
  \E key \in DOMAIN redis \ DOMAIN TwoRecordsStore :
    /\ redis' = del(redis, key)
    /\ last' = [kind |-> "expire", key |-> key]
    /\ UNCHANGED <<env, memory>>

NextVerify == ReceiveVerifyText \/ ExpireMarker

SpecVerify == InitVerify /\ [][NextVerify]_vars

----------------------------------------------------------------------------
(* C37 *)

\* C37: whenever a registration flow leaves a user_context marker that binds
\* a WhatsApp number to an email, a UserRecord of that email is in the store.
C37_SessionMarkerHasRecord ==
  [][(/\ last'.kind = "text"
      /\ last'.section \in {"individual_registration", "business_registration"}
      /\ last'.reply \in {IndividualSuccess, BusinessSuccess}
      /\ UserContextKey(last'.from) \in DOMAIN redis')
       => userExists(redis', redis'[UserContextKey(last'.from)].val.email)]_vars

----------------------------------------------------------------------------
(* C38 *)

\* the UserRecord of the email was created by a registration submitted from
\* the number
RegisteredFrom(r, email, whatsappNumber) ==
  /\ userExists(r, email)
  /\ getUserData(r, email).whatsappNumber = whatsappNumber

\* C38: a user_context marker binds a WhatsApp number to the UserRecord of an
\* email only if that record was created by a registration submitted from
\* that number: nobody binds their session to the record of another user by
\* sending that user's email.
C38_ContextBindsOwnRecord ==
  \A whatsappNumber \in VerifyEnv.users :
    UserContextKey(whatsappNumber) \in DOMAIN redis
      => RegisteredFrom(redis, redis[UserContextKey(whatsappNumber)].val.email,
                        whatsappNumber)

----------------------------------------------------------------------------
(* Two numbers in one store: TestWhatsappNumber sends messages while the   *)
(* FlowStates, markers and history of OtherWhatsappNumber are in the store. *)

FrameNumbers == {TestWhatsappNumber, OtherWhatsappNumber}

\* a message of the history of the other number
OtherMessage == [role |-> "user", content |-> "hello"]

\* what the conversations of the other number left in the store: a verified
\* collector with an uploaded invoice, a registration with a stored money
\* intent, and a quote flow with a pending registration intent
OtherStores ==
  LET talked == setEx(TwoRecordsStore, "conv:" \o OtherWhatsappNumber, 86400,
                      <<OtherMessage>>)
  IN { setEx(startCollectMoneyFlow(
               setEx(talked, UserContextKey(OtherWhatsappNumber), 3600,
                     UserContextOf("arnold@x.io",
                                   getUserData(talked, "arnold@x.io"))),
               OtherWhatsappNumber).redis,
             "pdf_" \o OtherWhatsappNumber, 300, "base64"),
       setEx(startUserRegistration(talked, OtherWhatsappNumber).redis,
             "money_intent:" \o OtherWhatsappNumber, 300, "COLLECT_MONEY"),
       setEx(startFiatToCryptoFlow(talked, OtherWhatsappNumber).redis,
             "registration_intent:" \o OtherWhatsappNumber, 300, "pending") }

\* the memory of the process: the store in use, or the fallback storage in
\* use with the history of the other number in it
FrameMemories ==
  { InitialMemory,
    [useFallbackStorage |-> TRUE,
     conversations |-> [u \in {OtherWhatsappNumber} |-> <<OtherMessage>>],
     processedMessages |-> {}] }

FrameEnv ==
  [MoneyEnv EXCEPT
     !.users = {TestWhatsappNumber},
     !.texts = {"register", "Individual", IndividualBulk, "confirm", "exit",
                "fiat to crypto", "I want to collect money", "al@x.io",
                "reset"},
     !.store = TwoRecordsStore,
     !.outcomes = {"created"},
     !.moneyAnswers = {"unexpected"}]

\* the messages handled in a run
MaxMessages == 4

InitFrame ==
  /\ env = "frame"
  /\ redis \in OtherStores
  /\ memory \in FrameMemories
  /\ last = [kind |-> "start", count |-> 0]

\* POST /webhook with a text or a downloaded document: processMessage, then
\* the reply is added to the history of the sender
HandleMessage ==
  \E from \in FrameEnv.users, isDocument \in BOOLEAN,
     body \in FrameEnv.texts \cup FrameEnv.documents,
     getUp \in BOOLEAN, setUp \in BOOLEAN :
    /\ last.count < MaxMessages
    /\ isDocument <=> body \in FrameEnv.documents
    /\ \E done \in processMessage(
                     IF isDocument
                     THEN setEx(redis, "pdf_" \o from, 300, "base64")
                     ELSE redis,
                     from, body, isDocument, FrameEnv) :
         LET added == addToConversationHistory(
                        done.redis, memory, from,
                        [role |-> "assistant", content |-> done.reply],
                        getUp, setUp)
         IN /\ redis' = added.redis
            /\ memory' = added.memory
            /\ last' = [kind |-> "handled", from |-> from, text |-> body,
                        section |-> done.section, count |-> last.count + 1]
    /\ UNCHANGED env

NextFrame == HandleMessage

SpecFrame == InitFrame /\ [][NextFrame]_vars

\* the key is one of the number: <namespace>:<number> or pdf_<number>
KeyOf(key, whatsappNumber) ==
  endsWith(key, ":" \o whatsappNumber) \/ key = "pdf_" \o whatsappNumber

\* the FlowStates, markers and history that the store and the memory of the
\* process hold for the number
StateOf(r, m, whatsappNumber) ==
  [keys |-> [key \in {k \in DOMAIN r : KeyOf(k, whatsappNumber)} |-> r[key]],
   conversation |-> FallbackHistory(m, whatsappNumber)]

----------------------------------------------------------------------------
(* The classifier client (getOpenaiResponse): the attempts of one call *)

SUPPORTED_MODELS ==
  {"groq/llama3-8b-8192", "groq/llama-3.1-8b-instant",
   "groq/llama-3.1-70b-versatile", "gpt-3.5-turbo-0125", "gpt-4o",
   "gpt-4o-mini", "gpt-4-0125-preview",
   "bedrock/anthropic.claude-3-sonnet-20240229-v1:0",
   "bedrock/anthropic.claude-3-opus-20240229-v1:0",
   "bedrock/anthropic.claude-v2:1"}

\* the models that callers may name
CalledModels == SUPPORTED_MODELS \cup {"gpt-5"}

\* the attempts followed in a run
MaxAttempts == 6

\* what client.chat.completions.create may do
CompletionOutcomes == {"response", "rate_limit", "error"}

\* the message of the error that the client throws
CompletionError(outcome) ==
  IF outcome = "rate_limit" THEN "429 Rate limit reached for requests"
  ELSE "Connection error."

\* error.message.includes('429') || error.message.includes('Rate limit')
IsRateLimitError(message) ==
  EvalIncludes(message, "429") \/ EvalIncludes(message, "Rate limit")

\* one pass through the body of getOpenaiResponse: the result of the pass and
\* whether the function calls itself again
getOpenaiResponse(model, outcome) ==
  IF model \notin SUPPORTED_MODELS
  THEN [kind |-> "thrown", attempted |-> FALSE]
  ELSE IF outcome = "response"
  THEN [kind |-> "returned", attempted |-> TRUE]
  ELSE IF IsRateLimitError(CompletionError(outcome))
  THEN [kind |-> "call", attempted |-> TRUE]
  ELSE [kind |-> "thrown", attempted |-> TRUE]

InitClassifier ==
  /\ env = "classifier"
  /\ redis = EmptyStore
  /\ memory = InitialMemory
  /\ \E model \in CalledModels, stream \in BOOLEAN :
       last = [kind |-> "call", model |-> model, stream |-> stream,
               attempts |-> 0, rateLimits |-> 0]

\* the model is not one of SUPPORTED_MODELS: the call throws before any request
RejectModel ==
  /\ last.kind = "call" /\ last.model \notin SUPPORTED_MODELS
  /\ last' = [last EXCEPT !.kind = getOpenaiResponse(last.model, "error").kind]
  /\ UNCHANGED <<redis, env, memory>>

\* a request is answered: the response is returned
CompletionReturns ==
  /\ last.kind = "call" /\ last.model \in SUPPORTED_MODELS
  /\ last.attempts < MaxAttempts
  /\ last' = [last EXCEPT
                !.kind = getOpenaiResponse(last.model, "response").kind,
                !.attempts = last.attempts + 1]
  /\ UNCHANGED <<redis, env, memory>>

\* a request fails with a rate-limit error: after 20 seconds the function
\* calls itself with the same arguments
CompletionRateLimited ==
  /\ last.kind = "call" /\ last.model \in SUPPORTED_MODELS
  /\ last.attempts < MaxAttempts
  /\ last' = [last EXCEPT
                !.kind = getOpenaiResponse(last.model, "rate_limit").kind,
                !.attempts = last.attempts + 1,
                !.rateLimits = last.rateLimits + 1]
  /\ UNCHANGED <<redis, env, memory>>

\* a request fails with another error: it is thrown to the caller
CompletionFails ==
  /\ last.kind = "call" /\ last.model \in SUPPORTED_MODELS
  /\ last.attempts < MaxAttempts
  /\ last' = [last EXCEPT
                !.kind = getOpenaiResponse(last.model, "error").kind,
                !.attempts = last.attempts + 1]
  /\ UNCHANGED <<redis, env, memory>>

NextClassifier ==
  RejectModel \/ CompletionReturns \/ CompletionRateLimited \/ CompletionFails

SpecClassifier == InitClassifier /\ [][NextClassifier]_vars

\* C40: on a rate-limit error getOpenaiResponse retries once; when the retry
\* is rate-limited as well the error is propagated, so one call makes at most
\* two attempts.
C40_RetriesOnce ==
  /\ last.attempts <= 2
  /\ last.rateLimits >= 2 => last.kind = "thrown"

====
